---- MODULE Spec2Model ----
(***************************************************************************)
(* Container Traffic Control: the rule evaluator (src/src/rule-engine.js), *)
(* the pattern matcher (src/unnamed/part_001), the navigation interceptor  *)
(* (src/src/background.js) and the repository                              *)
(* (src/src/ctc-repository.js, class CtcRepository).                       *)
(*                                                                         *)
(* Strings that the code inspects character by character (urls, patterns)  *)
(* are sequences of one-character strings.  Time is Date.now() in          *)
(* milliseconds; the clock of the model advances in steps of 500 ms.       *)
(***************************************************************************)
EXTENDS Integers, Sequences, FiniteSets, TLC

\* ------------------------------------------------------------------ bounds

\* Longest rule sequence handed to the evaluator.
MaxRules == 2

\* The clock stops after this many steps of 500 ms.
MaxTicks == 4

\* The calls of loadContainers and loadRules in a run.
MaxCalls == 3

\* The most values readers hold on to.
MaxReaders == 2

\* The most calls of getData.
MaxGets == 2

\* Longest pattern handed to the pattern matcher.
MaxPatternLen == 3

\* Longest rule sequence over two containers handed to the evaluator.
MaxLongRules == 3

\* ---------------------------------------------------------- pattern matcher

\* String.prototype.includes: pattern occurs in url as a contiguous run.
Includes(url, pattern) ==
    \E p \in 1..(Len(url) + 1) :
        /\ p + Len(pattern) - 1 <= Len(url)
        /\ \A k \in 1..Len(pattern) : url[p + k - 1] = pattern[k]

\* new RegExp(inner) throws a SyntaxError: in the fragment modelled here
\* (ordinary characters, ".", a leading "^", and "(") that is an
\* unterminated group.
RegexSyntaxError(inner) ==
    \E i \in 1..Len(inner) :
        /\ inner[i] = "("
        /\ ~ \E j \in (i + 1)..Len(inner) : inner[j] = ")"

\* regex.test(url) for a compiled pattern of that fragment.
RegexTest(inner, url) ==
    LET anchored == Len(inner) > 0 /\ inner[1] = "^"
        body     == IF anchored THEN Tail(inner) ELSE inner
        starts   == IF anchored THEN {1} ELSE 1..(Len(url) + 1)
    IN  \E p \in starts :
            /\ p + Len(body) - 1 <= Len(url)
            /\ \A k \in 1..Len(body) :
                   body[k] = "." \/ body[k] = url[p + k - 1]

\* The test without its length condition.
IsRegexPatternAnyLength(pattern) ==
    /\ Len(pattern) > 0
    /\ pattern[1] = "/"
    /\ pattern[Len(pattern)] = "/"

\* The pattern is "enclosed in /.../".
IsRegexPattern(pattern) ==
    /\ Len(pattern) > 0
    /\ pattern[1] = "/"
    /\ pattern[Len(pattern)] = "/"
    /\ Len(pattern) > 2

\* The catch block answering true.
matchesPatternCatchTrue(url, pattern) ==
    IF Len(pattern) = 0 THEN FALSE
    ELSE IF IsRegexPattern(pattern)
         THEN LET regexPattern == SubSeq(pattern, 2, Len(pattern) - 1)
              IN  IF RegexSyntaxError(regexPattern)
                  THEN TRUE
                  ELSE RegexTest(regexPattern, url)
         ELSE Includes(url, pattern)

matchesPattern(url, pattern) ==
    IF Len(pattern) = 0 THEN FALSE
    ELSE IF IsRegexPattern(pattern)
         THEN LET regexPattern == SubSeq(pattern, 2, Len(pattern) - 1)
              IN  IF RegexSyntaxError(regexPattern)
                  THEN FALSE                  \* catch (error) { return false }
                  ELSE RegexTest(regexPattern, url)
         ELSE Includes(url, pattern)

\* ------------------------------------------------------------ rule evaluator

NoContainer == "No Container"

\* JavaScript's null.
Null == "<null>"

\* A falsy string value: null or the empty string.
Falsy(v) == v = Null \/ v = ""

ContainerNames == {"Work", "Personal", NoContainer}

Actions == {"open", "restricted"}

UrlWork == <<"h", ":", "w">>

UrlSocial == <<"h", ":", "s">>

Urls == {UrlWork, UrlSocial}

\* One literal pattern and one delimited regular expression.
Patterns == {<<"w">>, <<"/", "^", "h", ".", "s", "/">>}

Rule == [containerName : ContainerNames, action : Actions,
         urlPattern : Patterns, highPriority : BOOLEAN]

\* Phase 1: let targetContainer = currentContainerName || 'No Container'
InitialTarget(currentContainerName) ==
    IF Falsy(currentContainerName) THEN NoContainer ELSE currentContainerName

\* Phase 2 with the restricted test dropped: a container is never left.
RestrictionCheckNever(url, targetContainer, rules) == targetContainer

\* Phase 2 looking at the restricted rules of the current container only.
RestrictionCheckRestrictedOnly(url, targetContainer, rules) ==
    IF targetContainer # NoContainer
    THEN LET restrictedRules ==
                 SelectSeq(rules, LAMBDA rule : /\ rule.containerName = targetContainer
                                                /\ rule.action = "restricted")
             matchesAnyRule ==
                 \E i \in 1..Len(restrictedRules) :
                     matchesPattern(url, restrictedRules[i].urlPattern)
         IN  IF Len(restrictedRules) > 0 /\ ~ matchesAnyRule
             THEN Null
             ELSE targetContainer
    ELSE targetContainer

\* Phase 2: Null when the current container has a restricted rule and none
\* of its rules matches the url.
RestrictionCheck(url, targetContainer, rules) ==
    IF targetContainer # NoContainer
    THEN LET containerRules ==
                 SelectSeq(rules, LAMBDA rule : rule.containerName = targetContainer)
             hasRestrictedRules ==
                 \E i \in 1..Len(containerRules) :
                     containerRules[i].action = "restricted"
             matchesAnyRule ==
                 \E i \in 1..Len(containerRules) :
                     matchesPattern(url, containerRules[i].urlPattern)
         IN  IF hasRestrictedRules /\ ~ matchesAnyRule
             THEN Null
             ELSE targetContainer
    ELSE targetContainer

\* Phase 3: rules.forEach((rule, index) => ... allowedContainers.push(...)).
\* ruleIndex is the 0-based index of the rule in rules.
RECURSIVE AllowedFrom(_, _, _)
AllowedFrom(url, rules, i) ==
    IF i > Len(rules) THEN <<>>
    ELSE LET rest == AllowedFrom(url, rules, i + 1)
         IN  IF matchesPattern(url, rules[i].urlPattern)
             THEN <<[name |-> rules[i].containerName,
                     highPriority |-> rules[i].highPriority,
                     ruleIndex |-> i - 1]>> \o rest
             ELSE rest

allowedContainers(url, rules) == AllowedFrom(url, rules, 1)

\* cs.sort((a, b) => a.ruleIndex - b.ruleIndex)[0] for a non-empty cs.
FirstByRuleIndex(cs) ==
    LET i == CHOOSE i \in 1..Len(cs) :
                 \A j \in 1..Len(cs) : cs[i].ruleIndex <= cs[j].ruleIndex
    IN  cs[i]

\* Phase 4 without the sticky case: picks the candidate with the largest
\* index, as a comparator written (b, a) would.
SelectByPrecedenceLastWins(targetContainer, allowed) ==
    LET highPriorityContainers == SelectSeq(allowed, LAMBDA c : c.highPriority)
    IN  IF ~ Falsy(targetContainer)
           /\ \E i \in 1..Len(allowed) : allowed[i].name = targetContainer
        THEN targetContainer
        ELSE IF Len(highPriorityContainers) > 0
        THEN highPriorityContainers[Len(highPriorityContainers)].name
        ELSE IF Len(allowed) > 0
        THEN allowed[Len(allowed)].name
        ELSE IF Falsy(targetContainer) THEN NoContainer ELSE targetContainer

\* Phase 4 with the high-priority filter dropped: first match wins.
SelectByPrecedenceNoPriority(targetContainer, allowed) ==
    IF ~ Falsy(targetContainer)
       /\ \E i \in 1..Len(allowed) : allowed[i].name = targetContainer
    THEN targetContainer
    ELSE IF Len(allowed) > 0
    THEN FirstByRuleIndex(allowed).name
    ELSE IF Falsy(targetContainer) THEN NoContainer ELSE targetContainer

\* Phase 4 with the high-priority rules ahead of the current container.
SelectByPrecedencePriorityFirst(targetContainer, allowed) ==
    LET highPriorityContainers == SelectSeq(allowed, LAMBDA c : c.highPriority)
    IN  IF Len(highPriorityContainers) > 0
        THEN FirstByRuleIndex(highPriorityContainers).name
        ELSE IF ~ Falsy(targetContainer)
                /\ \E i \in 1..Len(allowed) : allowed[i].name = targetContainer
        THEN targetContainer
        ELSE IF Len(allowed) > 0
        THEN FirstByRuleIndex(allowed).name
        ELSE IF Falsy(targetContainer) THEN NoContainer ELSE targetContainer

\* Phase 4 falling back to 'No Container' whenever nothing matches.
SelectByPrecedenceDefaultFallback(targetContainer, allowed) ==
    LET highPriorityContainers == SelectSeq(allowed, LAMBDA c : c.highPriority)
    IN  IF ~ Falsy(targetContainer)
           /\ \E i \in 1..Len(allowed) : allowed[i].name = targetContainer
        THEN targetContainer
        ELSE IF Len(highPriorityContainers) > 0
        THEN FirstByRuleIndex(highPriorityContainers).name
        ELSE IF Len(allowed) > 0
        THEN FirstByRuleIndex(allowed).name
        ELSE NoContainer

\* Phase 4 passing over the candidates of the current container.
SelectByPrecedenceElsewhere(targetContainer, allowed) ==
    LET others == SelectSeq(allowed, LAMBDA c : c.name # targetContainer)
        highPriorityContainers == SelectSeq(others, LAMBDA c : c.highPriority)
    IN  IF Len(highPriorityContainers) > 0
        THEN FirstByRuleIndex(highPriorityContainers).name
        ELSE IF Len(others) > 0
        THEN FirstByRuleIndex(others).name
        ELSE IF Falsy(targetContainer) THEN NoContainer ELSE targetContainer

\* Phase 4: precedences 1 to 5.
SelectByPrecedence(targetContainer, allowed) ==
    LET highPriorityContainers == SelectSeq(allowed, LAMBDA c : c.highPriority)
    IN  IF ~ Falsy(targetContainer)
           /\ \E i \in 1..Len(allowed) : allowed[i].name = targetContainer
        THEN targetContainer
        ELSE IF Len(highPriorityContainers) > 0
        THEN FirstByRuleIndex(highPriorityContainers).name
        ELSE IF Len(allowed) > 0
        THEN FirstByRuleIndex(allowed).name
        ELSE IF Falsy(targetContainer) THEN NoContainer ELSE targetContainer

evaluateContainerForUrl(url, currentContainerName, rules, containerMap) ==
    SelectByPrecedence(
        RestrictionCheck(url, InitialTarget(currentContainerName), rules),
        allowedContainers(url, rules))

\* ------------------------------------------------------------------- state

VARIABLES
    evalUrl,        \* evaluator: the url argument
    evalCurrent,    \* evaluator: the currentContainerName argument
    evalRules,      \* evaluator: the rules argument
    evalResult,     \* evaluator: the value returned, or NotEvaluated
    matchPattern,   \* pattern matcher: the pattern argument
    matchResult,    \* pattern matcher: <<the value returned>>, or <<>>
    now,            \* Date.now()
    containerMap,           \* CtcRepo.containerMap: name -> cookieStoreId
    cookieStoreToNameMap,   \* CtcRepo.cookieStoreToNameMap: cookieStoreId -> name
    rules,                  \* CtcRepo.rules
    hostIdentities,  \* what browser.contextualIdentities.query({}) returns
    storedRules,     \* the decoded content of storage key ctcRules
    isInitialized,          \* background.js: isInitialized
    initializationPromise,  \* background.js: "pending", "settled" or Null
    initStage,       \* where CtcRepo.initialize() of the startup stands
    tabs,            \* tab id -> cookieStoreId of the tab, Unborn or Closed
    tabActive,       \* tab id -> whether the tab is the selected tab of the window
    recentRedirections,       \* url -> timestamp
    recentTabRequests,        \* <<tabId, url>> -> timestamp
    recentContainerSwitches,  \* "from name->to name" -> timestamp
    handlers,        \* the invocations of handleRequest
    loadingContainersPromise,  \* CtcRepository.#loadingContainersPromise
    loadingRulesPromise,       \* CtcRepository.#loadingRulesPromise
    loads,           \* the runs of #doLoadContainers and #doLoadRules
    calls,           \* the calls of loadContainers and loadRules
    hostEvent,       \* the notification the host has yet to dispatch
    inits,           \* the runs of CtcRepository.initialize
    gets,            \* the calls of CtcRepository.getData
    readers          \* the values handed out by getContainerData and getRules

evalVars == <<evalUrl, evalCurrent, evalRules, evalResult, matchPattern, matchResult>>

repoVars == <<containerMap, cookieStoreToNameMap, rules, hostIdentities, storedRules>>

initVars == <<isInitialized, initializationPromise, initStage>>

dedupVars == <<recentRedirections, recentTabRequests, recentContainerSwitches>>

navVars == <<now, initVars, tabs, tabActive, dedupVars, handlers>>

loadVars == <<loadingContainersPromise, loadingRulesPromise, loads, calls>>

dataVars == <<hostEvent, inits, gets, readers>>

vars == <<evalVars, repoVars, navVars, loadVars, dataVars>>

NotEvaluated == "<not evaluated>"

\* --------------------------------------------------------------- repository

\* Map.prototype.get on a missing key.
Undefined == "<undefined>"

MapGet(map, key) == IF key \in DOMAIN map THEN map[key] ELSE Undefined

\* Map.prototype.set.
MapSet(map, key, value) ==
    [k \in DOMAIN map \cup {key} |-> IF k = key THEN value ELSE map[k]]

EmptyMap == <<>>

\* JavaScript truthiness of a string read from a Map (undefined when missing).
Truthy(v) == v # Undefined /\ v # ""

\* Map.prototype.get on a Map of timestamps; a missing key reads as 0, which
\* is falsy like undefined.
TimeGet(map, key) == IF key \in DOMAIN map THEN map[key] ELSE 0

FirefoxDefault == "firefox-default"

WorkIdentity == [name |-> "Work", cookieStoreId |-> "work-id"]

PersonalIdentity == [name |-> "Personal", cookieStoreId |-> "personal-id"]

CookieStoreIds == {FirefoxDefault, "work-id", "personal-id", "a-id", "ab-id", "ba-id"}

\* #doLoadContainers: containerMap after clear(), the 'No Container' entry
\* and the forEach over the first n identities.
RECURSIVE LoadedContainerMap(_, _)
LoadedContainerMap(identities, n) ==
    IF n = 0 THEN MapSet(EmptyMap, NoContainer, FirefoxDefault)
    ELSE MapSet(LoadedContainerMap(identities, n - 1),
                identities[n].name, identities[n].cookieStoreId)

\* #doLoadContainers: cookieStoreToNameMap likewise.
RECURSIVE LoadedCookieStoreToNameMap(_, _)
LoadedCookieStoreToNameMap(identities, n) ==
    IF n = 0 THEN MapSet(EmptyMap, FirefoxDefault, NoContainer)
    ELSE MapSet(LoadedCookieStoreToNameMap(identities, n - 1),
                identities[n].cookieStoreId, identities[n].name)

\* --------------------------------------------------------------- interceptor

EXPIRY_REDIRECT_MS == 2000

EXPIRY_TAB_REQUEST_MS == 1000

EXPIRY_CONTAINER_SWITCH_MS == 1500

CLEANUP_SIZE_THRESHOLD == 100

StartsWith(url, prefix) ==
    /\ Len(prefix) <= Len(url)
    /\ \A k \in 1..Len(prefix) : url[k] = prefix[k]

\* No url taken for privileged.
isPrivilegedURLNever(url) == FALSE

isPrivilegedURL(url) ==
    \/ StartsWith(url, <<"a", "b", "o", "u", "t", ":">>)
    \/ StartsWith(url, <<"m", "o", "z", "-", "e", "x", "t", "e", "n", "s", "i", "o", "n", ":">>)
    \/ StartsWith(url, <<"c", "h", "r", "o", "m", "e", ":">>)
    \/ StartsWith(url, <<"r", "e", "s", "o", "u", "r", "c", "e", ":">>)

UrlAbout == <<"a", "b", "o", "u", "t", ":", "c">>

\* The urls of the navigation events.
NavUrls == Urls \cup {UrlAbout}

TabIds == {1, 2, 3}

\* details.tabId of an event with no associated tab.
NoTab == -1

Unborn == "<unborn>"

Closed == "<closed>"

HandlerIds == {"h1", "h2"}

\* The decision compared against the container's name instead of its id.
SwitchRequiredByName(currentCookieStoreId, targetCookieStoreId) ==
    MapGet(cookieStoreToNameMap, currentCookieStoreId) # targetCookieStoreId

\* DECISION POINT: currentCookieStoreId !== targetCookieStoreId
SwitchRequired(currentCookieStoreId, targetCookieStoreId) ==
    currentCookieStoreId # targetCookieStoreId

evaluateContainer(url, currentCookieStoreId) ==
    IF Cardinality(DOMAIN containerMap) <= 1
    THEN currentCookieStoreId
    ELSE LET got == MapGet(cookieStoreToNameMap, currentCookieStoreId)
             currentContainerName == IF Truthy(got) THEN got ELSE NoContainer
             targetContainerName ==
                 evaluateContainerForUrl(url, currentContainerName, rules, containerMap)
             id == MapGet(containerMap, targetContainerName)
         IN  IF targetContainerName = NoContainer
             THEN FirefoxDefault
             ELSE IF Truthy(id) THEN id ELSE FirefoxDefault

\* Every Map swept with the window of the tab+url Map.
UnexpiredByTabWindow(map, expiry) ==
    [k \in {k \in DOMAIN map : ~ (now - map[k] > EXPIRY_TAB_REQUEST_MS)} |-> map[k]]

\* The entries of a tracking Map that pruneTrackingMaps keeps.
Unexpired(map, expiry) ==
    [k \in {k \in DOMAIN map : ~ (now - map[k] > expiry)} |-> map[k]]

\* The three Maps after the maintenance step of handleRequest, given the
\* tab-request Map as just stamped.
Maintained(tabRequests) ==
    IF \/ Cardinality(DOMAIN tabRequests) > CLEANUP_SIZE_THRESHOLD
       \/ Cardinality(DOMAIN recentRedirections) > CLEANUP_SIZE_THRESHOLD
       \/ Cardinality(DOMAIN recentContainerSwitches) > CLEANUP_SIZE_THRESHOLD
    THEN [redirections |-> Unexpired(recentRedirections, EXPIRY_REDIRECT_MS),
          tabRequests |-> Unexpired(tabRequests, EXPIRY_TAB_REQUEST_MS),
          containerSwitches |->
              Unexpired(recentContainerSwitches, EXPIRY_CONTAINER_SWITCH_MS)]
    ELSE [redirections |-> recentRedirections,
          tabRequests |-> tabRequests,
          containerSwitches |-> recentContainerSwitches]

\* The tab-request stamp forgotten.
StampTabRequestNever(tabRequests, tabRequestKey) == tabRequests

\* recentTabRequests.set(tabRequestKey, Date.now())
StampTabRequest(tabRequests, tabRequestKey) ==
    MapSet(tabRequests, tabRequestKey, now)

\* `${currentContainerName}->${targetContainerName}`
containerSwitchKey(currentContainerName, targetContainerName) ==
    currentContainerName \o "->" \o targetContainerName

\* The stamp left for after browser.tabs.create.
StampRelocationLater(map, key) == map

\* recentRedirections.set(redirectKey, Date.now()) and
\* recentContainerSwitches.set(containerSwitchKey, Date.now()), before
\* browser.tabs.create is called.
StampRelocation(map, key) == MapSet(map, key, now)

\* The dropped repeat stamped like a processed event.
SkipDuplicateRestamping(tabRequests, tabRequestKey) ==
    MapSet(tabRequests, tabRequestKey, now)

\* return {} for a duplicate: recentTabRequests is left as it is.
SkipDuplicate(tabRequests, tabRequestKey) == tabRequests

\* A timestamp read from a tracking Map is present and younger than expiry.
Recent(last, expiry) == last # 0 /\ now - last < expiry

\* ------------------------------------------- the evaluator on bounded inputs

\* An invocation of handleRequest: pc is its suspension point, tabId and url
\* are details.tabId and details.url, current and target are
\* currentCookieStoreId and targetCookieStoreId, result is "pass" for {} and
\* "cancel" for { cancel: true }.  The other fields record the run:
\* deliveredAt the time of dispatch while the initialization is awaited,
\* tabStore the tab's container at dispatch, ready the value of isInitialized
\* when the dedup checks ran, stampedAt the time of recentTabRequests.set,
\* lookupFailed whether browser.tabs.get rejected in getTabInfo, active the
\* tabWasActive that getTabInfo returned,
\* issuedAt the time browser.tabs.create was called, endedBy the return taken.
IdleHandler ==
    [pc |-> "idle", tabId |-> 0, url |-> <<>>, deliveredAt |-> 0,
     tabStore |-> Undefined, ready |-> FALSE, lookupFailed |-> FALSE,
     stampedAt |-> 0, current |-> Undefined, active |-> TRUE, target |-> Undefined,
     issuedAt |-> 0, result |-> "none", endedBy |-> "none"]

MatchIdle ==
    /\ matchPattern = <<>>
    /\ matchResult = <<>>

EvalIdle ==
    /\ MatchIdle
    /\ evalUrl = <<>>
    /\ evalCurrent = Null
    /\ evalRules = <<>>
    /\ evalResult = NotEvaluated

RepoIdle ==
    /\ containerMap = EmptyMap
    /\ cookieStoreToNameMap = EmptyMap
    /\ rules = <<>>
    /\ hostIdentities = <<>>
    /\ storedRules = <<>>

NavIdle ==
    /\ now = 500
    /\ isInitialized = FALSE
    /\ initializationPromise = "pending"
    /\ initStage = "containers"
    /\ tabs = [t \in TabIds |-> Unborn]
    /\ tabActive = [t \in TabIds |-> FALSE]
    /\ recentRedirections = EmptyMap
    /\ recentTabRequests = EmptyMap
    /\ recentContainerSwitches = EmptyMap
    /\ handlers = [h \in HandlerIds |-> IdleHandler]

LoadIdle ==
    /\ hostEvent = "none"
    /\ inits = <<>>
    /\ gets = <<>>
    /\ readers = <<>>
    /\ loadingContainersPromise = 0
    /\ loadingRulesPromise = 0
    /\ loads = <<>>
    /\ calls = <<>>

EvalInit ==
    /\ LoadIdle
    /\ MatchIdle
    /\ evalUrl \in Urls
    /\ evalCurrent \in ContainerNames \cup {Null}
    /\ evalRules = <<>>
    /\ evalResult = NotEvaluated
    /\ RepoIdle
    /\ NavIdle

\* The first call, on the empty rule sequence.
Evaluate ==
    /\ evalResult = NotEvaluated
    /\ evalResult' = evaluateContainerForUrl(evalUrl, evalCurrent, evalRules, <<>>)
    /\ UNCHANGED <<dataVars, loadVars, evalUrl, evalCurrent, evalRules, repoVars, navVars,
                   matchPattern, matchResult>>

\* The caller appends a rule to the sequence and evaluates again.
AppendRule ==
    /\ Len(evalRules) < MaxRules
    /\ \E rule \in Rule :
           /\ evalRules' = Append(evalRules, rule)
           /\ evalResult' =
                  evaluateContainerForUrl(evalUrl, evalCurrent, evalRules', <<>>)
    /\ UNCHANGED <<dataVars, loadVars, evalUrl, evalCurrent, repoVars, navVars,
                   matchPattern, matchResult>>

EvalNext == AppendRule \/ Evaluate

SpecEval == EvalInit /\ [][EvalNext]_vars

\* ----------------------- the evaluator on longer rule sequences, two containers

TwoContainerRule == [containerName : {"Work", "Personal"}, action : Actions,
                     urlPattern : Patterns, highPriority : BOOLEAN]

LongInit ==
    /\ LoadIdle
    /\ MatchIdle
    /\ RepoIdle
    /\ NavIdle
    /\ evalUrl \in Urls
    /\ evalCurrent \in {"Work", "Personal"}
    /\ evalRules = <<>>
    /\ evalResult = NotEvaluated

\* The caller appends a rule of one of the two containers and evaluates again.
AppendLongRule ==
    /\ Len(evalRules) < MaxLongRules
    /\ \E rule \in TwoContainerRule :
           /\ evalRules' = Append(evalRules, rule)
           /\ evalResult' =
                  evaluateContainerForUrl(evalUrl, evalCurrent, evalRules', <<>>)
    /\ UNCHANGED <<dataVars, loadVars, evalUrl, evalCurrent, repoVars, navVars,
                   matchPattern, matchResult>>

LongNext == AppendLongRule \/ Evaluate

SpecLong == LongInit /\ [][LongNext]_vars

\* ------------------------------------- the pattern matcher on bounded inputs

\* The characters of the patterns: the delimiter, an ordinary character, the
\* wildcard and the character that opens a group.
MatchChars == {"/", "w", ".", "("}

RECURSIVE StringsUpTo(_, _)
StringsUpTo(chars, n) ==
    IF n = 0 THEN {<<>>}
    ELSE LET shorter == StringsUpTo(chars, n - 1)
         IN  shorter \cup {Append(str, c) : str \in shorter, c \in chars}

MatchPatterns == StringsUpTo(MatchChars, MaxPatternLen)

MatchUrls == {UrlWork, <<"/", "w", "/">>, <<"h", "/", "/", "s">>}

\* The rule a user writes with the pattern.
PatternRule(pattern) ==
    [containerName |-> "Work", action |-> "open",
     urlPattern |-> pattern, highPriority |-> FALSE]

MatchInit ==
    /\ LoadIdle
    /\ RepoIdle
    /\ NavIdle
    /\ evalUrl \in MatchUrls
    /\ evalCurrent = Null
    /\ evalRules = <<>>
    /\ evalResult = NotEvaluated
    /\ matchPattern \in MatchPatterns
    /\ matchResult = <<>>

\* matchesPattern(url, pattern) is called.
Match ==
    /\ matchResult = <<>>
    /\ matchResult' = <<matchesPattern(evalUrl, matchPattern)>>
    /\ UNCHANGED <<dataVars, loadVars, evalUrl, evalCurrent, evalRules, evalResult,
                   matchPattern, repoVars, navVars>>

\* evaluateContainerForUrl is called with the one rule of that pattern.
EvaluatePattern ==
    /\ evalResult = NotEvaluated
    /\ evalRules' = <<PatternRule(matchPattern)>>
    /\ evalResult' = evaluateContainerForUrl(evalUrl, evalCurrent, evalRules', <<>>)
    /\ UNCHANGED <<dataVars, loadVars, evalUrl, evalCurrent, matchPattern, matchResult,
                   repoVars, navVars>>

MatchNext == Match \/ EvaluatePattern

SpecMatch == MatchInit /\ [][MatchNext]_vars

\* ------------------------------------------- the navigation interceptor

\* The rule sets of the interceptor's runs, from the tests of the evaluator.
RestrictedWorkRules ==
    <<[containerName |-> "Work", action |-> "restricted",
       urlPattern |-> <<"w">>, highPriority |-> FALSE]>>

OpenWorkRules ==
    <<[containerName |-> "Work", action |-> "open",
       urlPattern |-> <<"w">>, highPriority |-> FALSE]>>

PriorityRules ==
    <<[containerName |-> "Personal", action |-> "open",
       urlPattern |-> <<"w">>, highPriority |-> FALSE],
      [containerName |-> "Work", action |-> "open",
       urlPattern |-> <<"w">>, highPriority |-> TRUE]>>

\* The first rule names a container that is no longer in the inventory.
StaleRules ==
    <<[containerName |-> "Old", action |-> "open",
       urlPattern |-> <<"w">>, highPriority |-> FALSE],
      [containerName |-> "Work", action |-> "open",
       urlPattern |-> <<"w">>, highPriority |-> FALSE]>>

NavRuleSets == {RestrictedWorkRules, OpenWorkRules, PriorityRules, StaleRules}

\* Where the two open tabs are when the run starts; tab 3 is the tab that a
\* relocation creates.
StartTabs ==
    {<<"work-id", "work-id", Unborn>>,
     <<"personal-id", FirefoxDefault, Unborn>>,
     <<FirefoxDefault, "work-id", Unborn>>}

\* The stored rules and the placement of the tabs when the run starts.
Scenarios ==
    {[rules |-> RestrictedWorkRules, tabs |-> <<"work-id", "work-id", Unborn>>],
     [rules |-> OpenWorkRules, tabs |-> <<"personal-id", FirefoxDefault, Unborn>>],
     [rules |-> PriorityRules, tabs |-> <<FirefoxDefault, "work-id", Unborn>>],
     [rules |-> StaleRules, tabs |-> <<"personal-id", FirefoxDefault, Unborn>>]}

NavInit ==
    /\ EvalIdle
    /\ LoadIdle
    /\ now = 500
    /\ containerMap = EmptyMap
    /\ cookieStoreToNameMap = EmptyMap
    /\ rules = <<>>
    /\ hostIdentities = <<WorkIdentity, PersonalIdentity>>
    /\ \E scenario \in Scenarios :
           /\ scenario.rules \in NavRuleSets
           /\ scenario.tabs \in StartTabs
           /\ storedRules = scenario.rules
           /\ tabs = scenario.tabs
    /\ tabActive = [t \in TabIds |-> t = 1]
    /\ isInitialized = FALSE
    /\ initializationPromise = "pending"
    /\ initStage = "containers"
    /\ recentRedirections = EmptyMap
    /\ recentTabRequests = EmptyMap
    /\ recentContainerSwitches = EmptyMap
    /\ handlers = [h \in HandlerIds |-> IdleHandler]

\* CtcRepo.initialize() of the startup: the container load succeeded.
InitContainersLoaded ==
    /\ initStage = "containers"
    /\ containerMap' = LoadedContainerMap(hostIdentities, Len(hostIdentities))
    /\ cookieStoreToNameMap' =
           LoadedCookieStoreToNameMap(hostIdentities, Len(hostIdentities))
    /\ initStage' = "rules"
    /\ UNCHANGED <<dataVars, loadVars, evalVars, rules, hostIdentities, storedRules, now,
                   isInitialized, initializationPromise, tabs, tabActive, dedupVars, handlers>>

\* The rule load succeeded too: .then(() => { isInitialized = true })
InitRulesLoaded ==
    /\ initStage = "rules"
    /\ rules' = storedRules
    /\ isInitialized' = TRUE
    /\ initializationPromise' = "fulfilled"
    /\ initStage' = "done"
    /\ UNCHANGED <<dataVars, loadVars, evalVars, containerMap, cookieStoreToNameMap, hostIdentities,
                   storedRules, now, tabs, tabActive, dedupVars, handlers>>

\* One of the loads failed: .catch(() => { initializationPromise = null })
InitFails ==
    /\ initStage \in {"containers", "rules"}
    /\ initializationPromise' = Null
    /\ initStage' = "failed"
    /\ UNCHANGED <<dataVars, loadVars, evalVars, repoVars, now, isInitialized, tabs, tabActive, dedupVars, handlers>>

\* A handler's continuation is queued behind the settled initialization:
\* it runs before the next event is dispatched.
NoPendingMicrotasks ==
    \A h \in HandlerIds :
        ~ (handlers[h].pc = "awaitInit" /\ initStage \in {"done", "failed"})

Tick ==
    /\ now < 500 + 500 * MaxTicks
    /\ NoPendingMicrotasks
    /\ now' = now + 500
    /\ UNCHANGED <<dataVars, loadVars, evalVars, repoVars, initVars, tabs, tabActive, dedupVars, handlers>>

Finished(rec, result, endedBy) ==
    [rec EXCEPT !.pc = "done", !.result = result, !.endedBy = endedBy]

\* handleRequest from the privileged-url check to the await of getTabInfo.
BeforeLookup(h, rec) ==
    IF isPrivilegedURL(rec.url)
    THEN /\ handlers' = [handlers EXCEPT ![h] = Finished(rec, "pass", "privileged")]
         /\ UNCHANGED dedupVars
    ELSE IF rec.tabId = NoTab
    THEN /\ handlers' = [handlers EXCEPT ![h] = Finished(rec, "pass", "noTab")]
         /\ UNCHANGED dedupVars
    ELSE LET tabRequestKey == <<rec.tabId, rec.url>>
             lastTabRequest == TimeGet(recentTabRequests, tabRequestKey)
         IN  IF Recent(lastTabRequest, EXPIRY_TAB_REQUEST_MS)
             THEN /\ handlers' =
                         [handlers EXCEPT ![h] = Finished(rec, "pass", "tabDedup")]
                  /\ recentTabRequests' = SkipDuplicate(recentTabRequests, tabRequestKey)
                  /\ UNCHANGED <<recentRedirections, recentContainerSwitches>>
             ELSE LET kept == Maintained(StampTabRequest(recentTabRequests, tabRequestKey))
                      lastRedirect == TimeGet(kept.redirections, rec.url)
                      stamped == [rec EXCEPT !.stampedAt = now]
                  IN  /\ recentTabRequests' = kept.tabRequests
                      /\ recentRedirections' = kept.redirections
                      /\ recentContainerSwitches' = kept.containerSwitches
                      /\ handlers' =
                             [handlers EXCEPT ![h] =
                                 IF Recent(lastRedirect, EXPIRY_REDIRECT_MS)
                                 THEN Finished(stamped, "pass", "urlDedup")
                                 ELSE [stamped EXCEPT !.pc = "awaitTabInfo"]]

\* The host dispatches a main_frame request to handleRequest.  Invocations
\* are named in the order of their dispatch.
Deliver(h, tabId, url) ==
    /\ handlers[h].pc = "idle"
    /\ h = "h2" => handlers["h1"].pc # "idle"
    /\ IF tabId = NoTab THEN TRUE ELSE tabs[tabId] \in CookieStoreIds
    /\ NoPendingMicrotasks
    \* The clock stops at its bound: an invocation that has to wait is
    \* dispatched only while its 500 ms timer can still fire.
    /\ (~ isInitialized /\ initializationPromise # Null) => now <= 500 * MaxTicks
    /\ LET rec == [IdleHandler EXCEPT
                      !.tabId = tabId, !.url = url,
                      !.tabStore = IF tabId = NoTab THEN Undefined ELSE tabs[tabId]]
       IN  IF ~ isInitialized /\ initializationPromise # Null
           THEN /\ handlers' =
                       [handlers EXCEPT ![h] =
                           [rec EXCEPT !.pc = "awaitInit", !.deliveredAt = now]]
                /\ UNCHANGED dedupVars
           ELSE BeforeLookup(h, [rec EXCEPT !.ready = isInitialized])
    /\ UNCHANGED <<dataVars, loadVars, evalVars, repoVars, now, initVars, tabs, tabActive>>

\* The race without its timer.
ResumeAfterInitNoTimeout(h) ==
    /\ handlers[h].pc = "awaitInit"
    /\ initStage \in {"done", "failed"}
    /\ BeforeLookup(h, [handlers[h] EXCEPT !.deliveredAt = 0,
                                            !.ready = isInitialized])
    /\ UNCHANGED <<dataVars, loadVars, evalVars, repoVars, now, initVars, tabs, tabActive>>

\* Promise.race settles: the initialization settled, or the 500 ms timer fired.
ResumeAfterInit(h) ==
    /\ handlers[h].pc = "awaitInit"
    /\ \/ initStage \in {"done", "failed"}
       \/ now - handlers[h].deliveredAt >= 500
    /\ BeforeLookup(h, [handlers[h] EXCEPT !.deliveredAt = 0,
                                            !.ready = isInitialized])
    /\ UNCHANGED <<dataVars, loadVars, evalVars, repoVars, now, initVars, tabs, tabActive>>

\* handleRequest from the return of getTabInfo to the await of tabs.create.
AfterLookup(h, rec, currentCookieStoreId) ==
    LET gotCurrent == MapGet(cookieStoreToNameMap, currentCookieStoreId)
        currentContainerName == IF Truthy(gotCurrent) THEN gotCurrent ELSE NoContainer
        targetCookieStoreId == evaluateContainer(rec.url, currentCookieStoreId)
        gotTarget == MapGet(cookieStoreToNameMap, targetCookieStoreId)
        targetContainerName == IF Truthy(gotTarget) THEN gotTarget ELSE NoContainer
        switchKey == containerSwitchKey(currentContainerName, targetContainerName)
        lastContainerSwitch == TimeGet(recentContainerSwitches, switchKey)
        looked == [rec EXCEPT !.current = currentCookieStoreId,
                              !.target = targetCookieStoreId]
    IN  IF SwitchRequired(currentCookieStoreId, targetCookieStoreId)
        THEN IF Recent(lastContainerSwitch, EXPIRY_CONTAINER_SWITCH_MS)
             THEN /\ handlers' =
                         [handlers EXCEPT ![h] = Finished(looked, "pass", "switchDedup")]
                  /\ UNCHANGED dedupVars
             ELSE /\ recentRedirections' = StampRelocation(recentRedirections, rec.url)
                  /\ recentContainerSwitches' =
                         StampRelocation(recentContainerSwitches, switchKey)
                  /\ UNCHANGED recentTabRequests
                  /\ handlers' =
                         [handlers EXCEPT ![h] =
                             [looked EXCEPT !.pc = "awaitCreate", !.issuedAt = now]]
        ELSE /\ handlers' = [handlers EXCEPT ![h] = Finished(looked, "pass", "noSwitch")]
             /\ UNCHANGED dedupVars

\* The catch branch of getTabInfo answering with a user container.
getTabInfoWorkFallback(tabId) ==
    IF tabs[tabId] \in CookieStoreIds THEN tabs[tabId] ELSE "work-id"

\* getTabInfo: browser.tabs.get resolves with the tab, or rejects for a tab
\* that no longer exists and the defaults are returned.
getTabInfo(tabId) ==
    IF tabs[tabId] \in CookieStoreIds THEN tabs[tabId] ELSE FirefoxDefault

\* The destination tab always opened in the foreground.
tabWasActiveAlways(tabId) == TRUE

\* getTabInfo: the active flag of the tab, true when the lookup fails.
tabWasActive(tabId) ==
    IF tabs[tabId] \in CookieStoreIds THEN tabActive[tabId] ELSE TRUE

TabInfoReturns(h) ==
    /\ handlers[h].pc = "awaitTabInfo"
    /\ NoPendingMicrotasks
    /\ AfterLookup(h, [handlers[h] EXCEPT
                           !.lookupFailed = tabs[handlers[h].tabId] \notin CookieStoreIds,
                           !.active = tabWasActive(handlers[h].tabId)],
                   getTabInfo(handlers[h].tabId))
    /\ UNCHANGED <<dataVars, loadVars, evalVars, repoVars, now, initVars, tabs, tabActive>>

\* browser.tabs.create({ active }): a foreground tab becomes the selected tab
\* of the window, a background tab leaves the selection alone.
CreatedActive(selection, newTab, active) ==
    IF active THEN [t \in TabIds |-> t = newTab]
    ELSE [t \in TabIds |-> t # newTab /\ selection[t]]

\* The window's selection over the open tabs: when the selected tab has been
\* removed the host selects another open tab.
Selected(placement, selection) ==
    LET open == {t \in TabIds : placement[t] \in CookieStoreIds}
    IN  IF \E t \in open : selection[t]
        THEN [t \in TabIds |-> t \in open /\ selection[t]]
        ELSE IF open = {} THEN [t \in TabIds |-> FALSE]
        ELSE LET first == CHOOSE t \in open : \A u \in open : t <= u
             IN  [t \in TabIds |-> t = first]

\* browser.tabs.create resolves: the new tab exists, the original tab is
\* removed and the request is cancelled.
CreateSucceeds(h) ==
    /\ handlers[h].pc = "awaitCreate"
    /\ NoPendingMicrotasks
    /\ LET rec == handlers[h]
           unborn == {t \in TabIds : tabs[t] = Unborn}
           newTab == IF unborn = {} THEN NoTab
                     ELSE CHOOSE t \in unborn : \A u \in unborn : t <= u
       IN  /\ tabs' = [t \in TabIds |->
                          IF t = newTab THEN rec.target
                          ELSE IF t = rec.tabId /\ rec.tabId >= 0
                                  /\ tabs[t] \in CookieStoreIds
                               THEN Closed
                               ELSE tabs[t]]
           /\ tabActive' =
                  IF rec.active /\ newTab = NoTab
                  THEN [t \in TabIds |-> FALSE]   \* the selected tab is not tracked
                  ELSE Selected(tabs', CreatedActive(tabActive, newTab, rec.active))
           /\ handlers' = [handlers EXCEPT ![h] = Finished(rec, "cancel", "relocated")]
    /\ UNCHANGED <<dataVars, loadVars, evalVars, repoVars, now, initVars, dedupVars>>

\* The catch block cancelling the request.
CreateFailsCancelling(h) ==
    /\ handlers[h].pc = "awaitCreate"
    /\ NoPendingMicrotasks
    /\ handlers' = [handlers EXCEPT ![h] = Finished(handlers[h], "cancel", "createFailed")]
    /\ UNCHANGED <<dataVars, loadVars, evalVars, repoVars, now, initVars, tabs, tabActive, dedupVars>>

\* browser.tabs.create rejects: catch (error) { return {} }
CreateFails(h) ==
    /\ handlers[h].pc = "awaitCreate"
    /\ NoPendingMicrotasks
    /\ handlers' = [handlers EXCEPT ![h] = Finished(handlers[h], "pass", "createFailed")]
    /\ UNCHANGED <<dataVars, loadVars, evalVars, repoVars, now, initVars, tabs, tabActive, dedupVars>>

Next ==
    \/ InitContainersLoaded
    \/ InitRulesLoaded
    \/ InitFails
    \/ Tick
    \/ \E h \in HandlerIds, tabId \in TabIds \cup {NoTab}, url \in NavUrls :
           Deliver(h, tabId, url)
    \/ \E h \in HandlerIds : ResumeAfterInit(h)
    \/ \E h \in HandlerIds : TabInfoReturns(h)
    \/ \E h \in HandlerIds : CreateSucceeds(h)
    \/ \E h \in HandlerIds : CreateFails(h)

Spec == NavInit /\ [][Next]_vars

\* The event loop keeps running: time passes, and a continuation whose
\* promise has settled or whose timer is due is run.  Nothing is assumed of
\* the initialization, which may stay pending for ever.  The readiness wait
\* does not look at the rules: one rule set is enough.
FairInit ==
    /\ NavInit
    /\ storedRules = RestrictedWorkRules

SpecFair ==
    /\ FairInit
    /\ [][Next]_vars
    /\ WF_vars(Tick)
    /\ \A h \in HandlerIds : WF_vars(ResumeAfterInit(h))

\* ---------------------- the interceptor once the startup initialization settled

\* The inventory the cache was loaded from before the Personal container
\* was created.
EarlierIdentities == <<WorkIdentity>>

\* How the startup initialization ended, what the cache was loaded from, the
\* stored rules and the placement of the tabs.
SettledScenarios ==
    {[stage |-> "done", cached |-> <<WorkIdentity, PersonalIdentity>>,
      rules |-> RestrictedWorkRules, tabs |-> <<"work-id", FirefoxDefault, Unborn>>],
     [stage |-> "done", cached |-> EarlierIdentities,
      rules |-> OpenWorkRules, tabs |-> <<"personal-id", FirefoxDefault, Unborn>>],
     [stage |-> "failed", cached |-> <<WorkIdentity, PersonalIdentity>>,
      rules |-> RestrictedWorkRules, tabs |-> <<"work-id", FirefoxDefault, Unborn>>]}

SettledInit ==
    /\ EvalIdle
    /\ LoadIdle
    /\ now = 500
    /\ hostIdentities = <<WorkIdentity, PersonalIdentity>>
    /\ \E scenario \in SettledScenarios :
           /\ containerMap = LoadedContainerMap(scenario.cached, Len(scenario.cached))
           /\ cookieStoreToNameMap =
                  LoadedCookieStoreToNameMap(scenario.cached, Len(scenario.cached))
           /\ storedRules = scenario.rules
           /\ rules = IF scenario.stage = "done" THEN scenario.rules ELSE <<>>
           /\ isInitialized = (scenario.stage = "done")
           /\ initializationPromise =
                  IF scenario.stage = "done" THEN "fulfilled" ELSE Null
           /\ initStage = scenario.stage
           /\ tabs = scenario.tabs
    /\ \E selected \in {1, 2} : tabActive = [t \in TabIds |-> t = selected]
    /\ recentRedirections = EmptyMap
    /\ recentTabRequests = EmptyMap
    /\ recentContainerSwitches = EmptyMap
    /\ handlers = [h \in HandlerIds |-> IdleHandler]

\* The user selects another open tab of the window.
Activate(tabId) ==
    /\ tabs[tabId] \in CookieStoreIds
    /\ ~ tabActive[tabId]
    /\ NoPendingMicrotasks
    /\ tabActive' = [t \in TabIds |-> t = tabId]
    /\ UNCHANGED <<dataVars, loadVars, evalVars, repoVars, now, initVars, tabs,
                   dedupVars, handlers>>

SettledNext ==
    \/ Tick
    \/ \E h \in HandlerIds, tabId \in TabIds \cup {NoTab}, url \in NavUrls :
           Deliver(h, tabId, url)
    \/ \E h \in HandlerIds : TabInfoReturns(h)
    \/ \E h \in HandlerIds : CreateSucceeds(h)
    \/ \E h \in HandlerIds : CreateFails(h)

SpecSettled == SettledInit /\ [][SettledNext]_vars

\* The interceptor with its rules loaded, and a user who switches tabs.
ActiveInit ==
    /\ SettledInit
    /\ isInitialized
    /\ storedRules = RestrictedWorkRules

ActiveNext ==
    \/ SettledNext
    \/ \E tabId \in TabIds : Activate(tabId)

SpecActive == ActiveInit /\ [][ActiveNext]_vars

\* ------------------------------ the interceptor and the container-pair key

\* One open rule that both sample urls match.
OpenWorkAnyRules ==
    <<[containerName |-> "Work", action |-> "open",
       urlPattern |-> <<"h">>, highPriority |-> FALSE]>>

\* Containers whose names the user wrote with an arrow in them.
ArrowIdentities ==
    <<[name |-> "A", cookieStoreId |-> "a-id"],
      [name |-> "A->B", cookieStoreId |-> "ab-id"],
      [name |-> "B->A", cookieStoreId |-> "ba-id"]>>

ArrowRules ==
    <<[containerName |-> "B->A", action |-> "open",
       urlPattern |-> <<"w">>, highPriority |-> FALSE],
      [containerName |-> "A", action |-> "open",
       urlPattern |-> <<"s">>, highPriority |-> FALSE]>>

\* The inventory, the rules and the placement of the tabs.
PairScenarios ==
    {[identities |-> <<WorkIdentity, PersonalIdentity>>,
      rules |-> OpenWorkAnyRules, tabs |-> <<FirefoxDefault, FirefoxDefault, Unborn>>],
     [identities |-> <<WorkIdentity, PersonalIdentity>>,
      rules |-> OpenWorkAnyRules, tabs |-> <<FirefoxDefault, "personal-id", Unborn>>],
     [identities |-> ArrowIdentities,
      rules |-> ArrowRules, tabs |-> <<"a-id", "ab-id", Unborn>>]}

\* The startup initialization has succeeded.
PairInit ==
    /\ EvalIdle
    /\ LoadIdle
    /\ now = 500
    /\ \E scenario \in PairScenarios :
           /\ hostIdentities = scenario.identities
           /\ containerMap =
                  LoadedContainerMap(scenario.identities, Len(scenario.identities))
           /\ cookieStoreToNameMap =
                  LoadedCookieStoreToNameMap(scenario.identities, Len(scenario.identities))
           /\ storedRules = scenario.rules
           /\ rules = scenario.rules
           /\ tabs = scenario.tabs
    /\ isInitialized = TRUE
    /\ initializationPromise = "fulfilled"
    /\ initStage = "done"
    /\ tabActive = [t \in TabIds |-> t = 1]
    /\ recentRedirections = EmptyMap
    /\ recentTabRequests = EmptyMap
    /\ recentContainerSwitches = EmptyMap
    /\ handlers = [h \in HandlerIds |-> IdleHandler]

SpecPair == PairInit /\ [][SettledNext]_vars

\* ------------------------------ the interceptor with large tracking Maps

\* Entries that earlier navigations have left in a tracking Map: the even
\* ones were stamped at 100, the odd ones at 500.
FillerStamp(i) == IF i % 2 = 0 THEN 100 ELSE 500

FillerTabRequests(n) ==
    [key \in {<<10 + i, UrlSocial>> : i \in 1..n} |-> FillerStamp(key[1] - 10)]

FillerUrl(i) == <<"f", ToString(i)>>

FillerRedirections(n) ==
    [key \in {FillerUrl(i) : i \in 1..n} |->
        FillerStamp(CHOOSE i \in 1..n : FillerUrl(i) = key)]

FillerPair(i) == containerSwitchKey("Old " \o ToString(i), "Work")

FillerContainerSwitches(n) ==
    [key \in {FillerPair(i) : i \in 1..n} |->
        FillerStamp(CHOOSE i \in 1..n : FillerPair(i) = key)]

\* Which of the three Maps the earlier navigations have filled, and with how
\* many entries.
PruneScenarios ==
    {[tabRequests |-> CLEANUP_SIZE_THRESHOLD - 1, redirections |-> 0,
      containerSwitches |-> 0],
     [tabRequests |-> 0, redirections |-> CLEANUP_SIZE_THRESHOLD + 1,
      containerSwitches |-> 0],
     [tabRequests |-> 0, redirections |-> 0,
      containerSwitches |-> CLEANUP_SIZE_THRESHOLD + 1]}

\* The startup initialization has succeeded and the interceptor has handled
\* many navigations in the last half second.
PruneInit ==
    /\ EvalIdle
    /\ LoadIdle
    /\ now = 500
    /\ hostIdentities = <<WorkIdentity, PersonalIdentity>>
    /\ containerMap = LoadedContainerMap(hostIdentities, Len(hostIdentities))
    /\ cookieStoreToNameMap =
           LoadedCookieStoreToNameMap(hostIdentities, Len(hostIdentities))
    /\ storedRules = OpenWorkAnyRules
    /\ rules = storedRules
    /\ tabs = <<FirefoxDefault, FirefoxDefault, Unborn>>
    /\ tabActive = [t \in TabIds |-> t = 1]
    /\ isInitialized = TRUE
    /\ initializationPromise = "fulfilled"
    /\ initStage = "done"
    /\ \E scenario \in PruneScenarios :
           /\ recentTabRequests = FillerTabRequests(scenario.tabRequests)
           /\ recentRedirections = FillerRedirections(scenario.redirections)
           /\ recentContainerSwitches =
                  FillerContainerSwitches(scenario.containerSwitches)
    /\ handlers = [h \in HandlerIds |-> IdleHandler]

SpecPrune == PruneInit /\ [][SettledNext]_vars

\* ------------------------------ the interceptor and redelivered events

\* When the interceptor processed the earlier event of tab 1 for UrlWork.
EarlierStamps == {100, 500}

\* The startup initialization has succeeded and an event of tab 1, which is
\* in the Work container already, has been processed and let through.
RepeatInit ==
    /\ EvalIdle
    /\ LoadIdle
    /\ now = 500
    /\ hostIdentities = <<WorkIdentity, PersonalIdentity>>
    /\ containerMap = LoadedContainerMap(hostIdentities, Len(hostIdentities))
    /\ cookieStoreToNameMap =
           LoadedCookieStoreToNameMap(hostIdentities, Len(hostIdentities))
    /\ storedRules = OpenWorkRules
    /\ rules = storedRules
    /\ tabs = <<"work-id", FirefoxDefault, Unborn>>
    /\ tabActive = [t \in TabIds |-> t = 1]
    /\ isInitialized = TRUE
    /\ initializationPromise = "fulfilled"
    /\ initStage = "done"
    /\ \E stamp \in EarlierStamps :
           recentTabRequests = MapSet(EmptyMap, <<1, UrlWork>>, stamp)
    /\ recentRedirections = EmptyMap
    /\ recentContainerSwitches = EmptyMap
    /\ handlers = [h \in HandlerIds |-> IdleHandler]

SpecRepeat == RepeatInit /\ [][SettledNext]_vars

\* ------------------------------------------- the repository's load functions

LoadKinds == {"containers", "rules"}

\* The rule sets the options page saves.
StoredRuleSets == {RestrictedWorkRules, OpenWorkRules}

\* The inventories browser.contextualIdentities.query({}) can return.
HostInventories == {<<WorkIdentity, PersonalIdentity>>, <<WorkIdentity>>}

\* A run of #doLoadContainers or #doLoadRules.  state is "fetching" while the
\* browser call (contextualIdentities.query, storage.sync.get) is pending,
\* "decoding" while decodeRulesFromStorage is pending, then "fulfilled" or
\* "rejected"; value is <<v>> once the run has returned v.  startedBy is the
\* call that made the run, before the cache of its kind when it started.
NewLoad(kind, call) ==
    [kind |-> kind, state |-> "fetching", startedBy |-> call, value |-> <<>>,
     before |-> IF kind = "containers"
                THEN <<containerMap, cookieStoreToNameMap>>
                ELSE <<rules>>]

\* The runs of a kind whose browser call is pending.
Fetching(kind) ==
    {l \in DOMAIN loads : loads[l].kind = kind /\ loads[l].state = "fetching"}

InFlight(kind) == IF Fetching(kind) = {} THEN 0 ELSE CHOOSE l \in Fetching(kind) : TRUE

\* The in-flight marker never found set.
MarkerSetNever(loadingPromise) == FALSE

\* if (this.#loadingContainersPromise): null is 0, a promise is the number
\* of the run it belongs to.
MarkerSet(loadingPromise) == loadingPromise # 0

\* A call of loadContainers or loadRules.  awaits is the run whose promise
\* the call returns or awaits; inFlight is the run of its kind whose browser
\* call was pending when the call was made (0 when none); outcome and value
\* are how the promise the call returned has settled.
NewCall(kind, onError, awaits) ==
    [kind |-> kind, onError |-> onError, awaits |-> awaits,
     inFlight |-> InFlight(kind), outcome |-> "pending", value |-> <<>>]

\* loadContainers(onSuccess, onError) and loadRules(onSuccess, onError) up to
\* their await: with the marker set the call returns the marker's promise,
\* otherwise it runs #doLoad... up to the browser call and stores the promise.
load(kind, onError, loadingPromise) ==
    /\ Len(calls) < MaxCalls
    /\ IF MarkerSet(loadingPromise)
       THEN /\ calls' = Append(calls, NewCall(kind, onError, loadingPromise))
            /\ UNCHANGED <<loads, loadingContainersPromise, loadingRulesPromise>>
       ELSE /\ loads' = Append(loads, NewLoad(kind, Len(calls) + 1))
            /\ calls' = Append(calls, NewCall(kind, onError, Len(loads) + 1))
            /\ IF kind = "containers"
               THEN /\ loadingContainersPromise' = Len(loads) + 1
                    /\ UNCHANGED loadingRulesPromise
               ELSE /\ loadingRulesPromise' = Len(loads) + 1
                    /\ UNCHANGED loadingContainersPromise
    /\ UNCHANGED <<evalVars, repoVars, navVars>>

loadContainers ==
    /\ \E onError \in BOOLEAN : load("containers", onError, loadingContainersPromise)
    /\ UNCHANGED dataVars

loadRules ==
    /\ \E onError \in BOOLEAN : load("rules", onError, loadingRulesPromise)
    /\ UNCHANGED dataVars

\* The promises of the calls once run l has settled.  A call that returned
\* the marker's promise settles as that promise does.  The call that made the
\* run returns the result, and on an error calls onError and returns
\* undefined, or rethrows when there is no onError.
Settled(l, state, value) ==
    [c \in DOMAIN calls |->
        IF calls[c].awaits # l THEN calls[c]
        ELSE IF state = "rejected" /\ loads[l].startedBy = c /\ calls[c].onError
             THEN [calls[c] EXCEPT !.outcome = "fulfilled", !.value = <<>>]
             ELSE [calls[c] EXCEPT !.outcome = state, !.value = value]]

\* The marker left in place.
FinallyNever(l) == UNCHANGED <<loadingContainersPromise, loadingRulesPromise>>

\* .finally(() => { this.#loading...Promise = null }) of run l.
Finally(l) ==
    IF loads[l].kind = "containers"
    THEN /\ loadingContainersPromise' = 0
         /\ UNCHANGED loadingRulesPromise
    ELSE /\ loadingRulesPromise' = 0
         /\ UNCHANGED loadingContainersPromise

\* Run l settles: the .finally callback and the resumption of the calls that
\* wait for it are microtasks of the task that settles the run.
Settle(l, state, value) ==
    /\ loads' = [loads EXCEPT ![l].state = state, ![l].value = value]
    /\ calls' = Settled(l, state, value)
    /\ Finally(l)

\* What the held values show after this.containerMap.clear() and the set
\* calls: every holder of the Map object sees the Map's new entries.
MapsRebuilt(held, map) ==
    [r \in DOMAIN held |->
        IF held[r].kind = "containers" THEN [held[r] EXCEPT !.contents = map]
        ELSE held[r]]

\* The rules array filled in place instead of replaced.
RulesAssignedInPlace(held, decodedRules) ==
    [r \in DOMAIN held |->
        IF held[r].kind = "rules" THEN [held[r] EXCEPT !.contents = decodedRules]
        ELSE held[r]]

\* What the held values show after this.rules = decodedRules: the field
\* points at another array and the arrays handed out before are untouched.
RulesAssigned(held, decodedRules) == held

\* The Maps cleared and the run settled before they are repopulated.
QueryReturnsCleared ==
    \E l \in Fetching("containers") :
        /\ containerMap' = EmptyMap
        /\ cookieStoreToNameMap' = EmptyMap
        /\ readers' = MapsRebuilt(readers, containerMap')
        /\ Settle(l, "fulfilled", <<containerMap'>>)
        /\ UNCHANGED <<evalVars, rules, hostIdentities, storedRules, navVars,
                       hostEvent, inits, gets>>

\* browser.contextualIdentities.query({}) resolves: #doLoadContainers
\* rebuilds the two Maps and returns getContainerData().
QueryReturns ==
    \E l \in Fetching("containers") :
        /\ containerMap' = LoadedContainerMap(hostIdentities, Len(hostIdentities))
        /\ cookieStoreToNameMap' =
               LoadedCookieStoreToNameMap(hostIdentities, Len(hostIdentities))
        /\ readers' = MapsRebuilt(readers, containerMap')
        /\ Settle(l, "fulfilled", <<containerMap'>>)
        /\ UNCHANGED <<evalVars, rules, hostIdentities, storedRules, navVars,
                       hostEvent, inits, gets>>

\* The Maps cleared before the query is awaited.
QueryFailsAfterClear ==
    \E l \in Fetching("containers") :
        /\ containerMap' = EmptyMap
        /\ cookieStoreToNameMap' = EmptyMap
        /\ Settle(l, "rejected", <<>>)
        /\ UNCHANGED <<evalVars, rules, hostIdentities, storedRules, navVars, dataVars>>

\* browser.contextualIdentities.query({}) rejects.
QueryFails ==
    \E l \in Fetching("containers") :
        /\ Settle(l, "rejected", <<>>)
        /\ UNCHANGED <<evalVars, repoVars, navVars, dataVars>>

\* browser.storage.sync.get('ctcRules') resolves: decodeRulesFromStorage is
\* called with the stored value.
StorageReturns ==
    \E l \in Fetching("rules") :
        /\ loads' = [loads EXCEPT ![l].state = "decoding", ![l].value = <<storedRules>>]
        /\ UNCHANGED <<calls, loadingContainersPromise, loadingRulesPromise>>
        /\ UNCHANGED <<evalVars, repoVars, navVars, dataVars>>

\* browser.storage.sync.get('ctcRules') rejects.
StorageFails ==
    \E l \in Fetching("rules") :
        /\ Settle(l, "rejected", <<>>)
        /\ UNCHANGED <<evalVars, repoVars, navVars, dataVars>>

Decoding == {l \in DOMAIN loads : loads[l].state = "decoding"}

\* decodeRulesFromStorage resolves: this.rules = decodedRules.
DecodeReturns ==
    \E l \in Decoding :
        /\ rules' = loads[l].value[1]
        /\ readers' = RulesAssigned(readers, rules')
        /\ Settle(l, "fulfilled", loads[l].value)
        /\ UNCHANGED <<evalVars, containerMap, cookieStoreToNameMap,
                       hostIdentities, storedRules, navVars,
                       hostEvent, inits, gets>>

\* decodeRulesFromStorage throws.
DecodeFails ==
    \E l \in Decoding :
        /\ Settle(l, "rejected", <<>>)
        /\ UNCHANGED <<evalVars, repoVars, navVars, dataVars>>

\* The user creates or removes a container.
HostChanges ==
    /\ hostIdentities' \in HostInventories \ {hostIdentities}
    /\ UNCHANGED <<evalVars, containerMap, cookieStoreToNameMap, rules,
                   storedRules, navVars, loadVars, dataVars>>

\* The options page saves another rule set.
StoreChanges ==
    /\ storedRules' \in StoredRuleSets \ {storedRules}
    /\ UNCHANGED <<evalVars, containerMap, cookieStoreToNameMap, rules,
                   hostIdentities, navVars, loadVars, dataVars>>

RepoInit ==
    /\ EvalIdle
    /\ NavIdle
    /\ LoadIdle
    /\ containerMap = EmptyMap
    /\ cookieStoreToNameMap = EmptyMap
    /\ rules = <<>>
    /\ hostIdentities \in HostInventories
    /\ storedRules \in StoredRuleSets

RepoNext ==
    \/ loadContainers
    \/ loadRules
    \/ QueryReturns
    \/ QueryFails
    \/ StorageReturns
    \/ StorageFails
    \/ DecodeReturns
    \/ DecodeFails
    \/ HostChanges
    \/ StoreChanges

SpecRepo == RepoInit /\ [][RepoNext]_vars

\* ------------------------------------- the default entry of the inventory

\* A container that the user has named like the built-in default.
NamesakeIdentity == [name |-> NoContainer, cookieStoreId |-> "a-id"]

\* The lists that browser.contextualIdentities.query({}) returns: no
\* container, one container, and one with a container named 'No Container'.
SeedInventories ==
    {<<>>, <<WorkIdentity>>, <<WorkIdentity, NamesakeIdentity>>}

\* The user creates, removes or renames containers.
HostLists ==
    /\ hostIdentities' \in SeedInventories \ {hostIdentities}
    /\ UNCHANGED <<evalVars, containerMap, cookieStoreToNameMap, rules,
                   storedRules, navVars, loadVars, dataVars>>

SeedInit ==
    /\ EvalIdle
    /\ NavIdle
    /\ LoadIdle
    /\ containerMap = EmptyMap
    /\ cookieStoreToNameMap = EmptyMap
    /\ rules = <<>>
    /\ hostIdentities \in SeedInventories
    /\ storedRules = RestrictedWorkRules

SeedNext ==
    \/ loadContainers
    \/ QueryReturns
    \/ QueryFails
    \/ HostLists

SpecSeed == SeedInit /\ [][SeedNext]_vars

\* ------------------------------------- the host's notifications and readers

RenamedIdentity == [name |-> "Job", cookieStoreId |-> "work-id"]

\* The user adds the Personal container: contextualIdentities.onCreated.
HostCreates ==
    /\ hostEvent = "none"
    /\ \A i \in DOMAIN hostIdentities : hostIdentities[i] # PersonalIdentity
    /\ hostIdentities' = Append(hostIdentities, PersonalIdentity)
    /\ hostEvent' = "onCreated"
    /\ UNCHANGED <<evalVars, containerMap, cookieStoreToNameMap, rules,
                   storedRules, navVars, loadVars, inits, gets, readers>>

\* The user deletes the last container: contextualIdentities.onRemoved.
HostRemoves ==
    /\ hostEvent = "none"
    /\ Len(hostIdentities) > 1
    /\ hostIdentities' = SubSeq(hostIdentities, 1, Len(hostIdentities) - 1)
    /\ hostEvent' = "onRemoved"
    /\ UNCHANGED <<evalVars, containerMap, cookieStoreToNameMap, rules,
                   storedRules, navVars, loadVars, inits, gets, readers>>

\* The user renames the Work container: contextualIdentities.onUpdated.
HostRenames ==
    /\ hostEvent = "none"
    /\ hostIdentities[1] = WorkIdentity
    /\ hostIdentities' = [hostIdentities EXCEPT ![1] = RenamedIdentity]
    /\ hostEvent' = "onUpdated"
    /\ UNCHANGED <<evalVars, containerMap, cookieStoreToNameMap, rules,
                   storedRules, navVars, loadVars, inits, gets, readers>>

\* The options page saves another rule set: storage.onChanged.
RulesSaved ==
    /\ hostEvent = "none"
    /\ storedRules' \in StoredRuleSets \ {storedRules}
    /\ hostEvent' = "onChanged"
    /\ UNCHANGED <<evalVars, containerMap, cookieStoreToNameMap, rules,
                   hostIdentities, navVars, loadVars, inits, gets, readers>>

\* The listener of contextualIdentities.onCreated: CtcRepo.loadContainers().
onCreated ==
    /\ hostEvent = "onCreated"
    /\ load("containers", FALSE, loadingContainersPromise)
    /\ hostEvent' = "none"
    /\ UNCHANGED <<inits, gets, readers>>

\* The listener of contextualIdentities.onRemoved: CtcRepo.loadContainers().
onRemoved ==
    /\ hostEvent = "onRemoved"
    /\ load("containers", FALSE, loadingContainersPromise)
    /\ hostEvent' = "none"
    /\ UNCHANGED <<inits, gets, readers>>

\* contextualIdentities.onUpdated is dispatched: the background script has
\* registered no listener for it.
onUpdated ==
    /\ hostEvent = "onUpdated"
    /\ hostEvent' = "none"
    /\ UNCHANGED <<evalVars, repoVars, navVars, loadVars, inits, gets, readers>>

\* The listener of storage.onChanged: CtcRepo.loadRules().
onChanged ==
    /\ hostEvent = "onChanged"
    /\ load("rules", FALSE, loadingRulesPromise)
    /\ hostEvent' = "none"
    /\ UNCHANGED <<inits, gets, readers>>

\* A caller keeps the containerMap of getContainerData().
getContainerData ==
    /\ Len(readers) < MaxReaders
    /\ readers' = Append(readers, [kind |-> "containers",
                                   obtained |-> containerMap,
                                   contents |-> containerMap])
    /\ UNCHANGED <<evalVars, repoVars, navVars, loadVars, hostEvent, inits, gets>>

\* A caller keeps the array of getRules().
getRules ==
    /\ Len(readers) < MaxReaders
    /\ readers' = Append(readers, [kind |-> "rules",
                                   obtained |-> <<rules>>,
                                   contents |-> <<rules>>])
    /\ UNCHANGED <<evalVars, repoVars, navVars, loadVars, hostEvent, inits, gets>>

NotifyInit ==
    /\ EvalIdle
    /\ NavIdle
    /\ LoadIdle
    /\ containerMap = EmptyMap
    /\ cookieStoreToNameMap = EmptyMap
    /\ rules = <<>>
    /\ hostIdentities = <<WorkIdentity>>
    /\ storedRules = RestrictedWorkRules

NotifyNext ==
    \/ HostCreates
    \/ HostRemoves
    \/ HostRenames
    \/ RulesSaved
    \/ onCreated
    \/ onRemoved
    \/ onUpdated
    \/ onChanged
    \/ QueryReturns
    \/ QueryFails
    \/ StorageReturns
    \/ StorageFails
    \/ DecodeReturns
    \/ DecodeFails
    \/ getContainerData
    \/ getRules

SpecNotify == NotifyInit /\ [][NotifyNext]_vars

\* ------------------------------ the interceptor while the caches are refreshed

\* The startup initialization has succeeded; both open tabs are in the
\* Personal container.
ViewInit ==
    /\ EvalIdle
    /\ LoadIdle
    /\ now = 500
    /\ hostIdentities = <<WorkIdentity, PersonalIdentity>>
    /\ containerMap = LoadedContainerMap(hostIdentities, Len(hostIdentities))
    /\ cookieStoreToNameMap =
           LoadedCookieStoreToNameMap(hostIdentities, Len(hostIdentities))
    /\ storedRules = OpenWorkRules
    /\ rules = storedRules
    /\ tabs = <<"personal-id", "personal-id", Unborn>>
    /\ tabActive = [t \in TabIds |-> t = 1]
    /\ isInitialized = TRUE
    /\ initializationPromise = "fulfilled"
    /\ initStage = "done"
    /\ recentRedirections = EmptyMap
    /\ recentTabRequests = EmptyMap
    /\ recentContainerSwitches = EmptyMap
    /\ handlers = [h \in HandlerIds |-> IdleHandler]

\* Navigations to one url are handled while the user removes and creates a
\* container and saves other rules, and the repository reloads its caches.
ViewNext ==
    \/ \E h \in HandlerIds, tabId \in {1, 2} : Deliver(h, tabId, UrlWork)
    \/ \E h \in HandlerIds : TabInfoReturns(h)
    \/ \E h \in HandlerIds : CreateSucceeds(h)
    \/ \E h \in HandlerIds : CreateFails(h)
    \/ HostRemoves
    \/ HostCreates
    \/ RulesSaved
    \/ onRemoved
    \/ onCreated
    \/ onChanged
    \/ QueryReturns
    \/ StorageReturns
    \/ DecodeReturns

SpecView == ViewInit /\ [][ViewNext]_vars

\* ------------------------------------------------- getData and initialize

\* this.rules !== undefined, with the rules field of the class: an empty
\* array at construction and the decoded array after every load.
RulesDefined(cachedRules) == TRUE

\* getData: if (this.containerMap.size > 0 && this.rules !== undefined).
AlreadyInitialized(map, cachedRules) ==
    /\ Cardinality(DOMAIN map) > 0
    /\ RulesDefined(cachedRules)

\* The runs of initialize whose awaited call has settled: their continuation
\* is a microtask, run before the event loop takes the next task.
Resumable == {i \in DOMAIN inits : /\ inits[i].stage \in {"containers", "rules"}
                                   /\ calls[inits[i].awaits].outcome # "pending"}

\* Whether a run of the given kind has fulfilled so far.
Loaded(kind) ==
    \E l \in DOMAIN loads : loads[l].kind = kind /\ loads[l].state = "fulfilled"

NewGet(decision) ==
    [decision |-> decision,
     containersLoaded |-> Loaded("containers"),
     rulesLoaded |-> Loaded("rules")]

\* getData(onSuccess, onError): the cached data, or initialize() up to the
\* await of its loadContainers() call.
getData ==
    /\ Resumable = {}
    /\ Len(gets) < MaxGets
    /\ IF AlreadyInitialized(containerMap, rules)
       THEN /\ gets' = Append(gets, NewGet("cached"))
            /\ UNCHANGED <<evalVars, repoVars, navVars, loadVars, hostEvent,
                           inits, readers>>
       ELSE /\ gets' = Append(gets, NewGet("initialize"))
            /\ load("containers", FALSE, loadingContainersPromise)
            /\ inits' = Append(inits, [stage |-> "containers",
                                       awaits |-> Len(calls) + 1])
            /\ UNCHANGED <<hostEvent, readers>>

\* initialize going on to this.loadRules() however loadContainers() ended.
initializeLoadsRulesRegardless ==
    \E i \in Resumable :
        /\ inits[i].stage = "containers"
        /\ load("rules", FALSE, loadingRulesPromise)
        /\ inits' = [inits EXCEPT ![i].stage = "rules",
                                  ![i].awaits = Len(calls) + 1]
        /\ UNCHANGED <<hostEvent, gets, readers>>

\* initialize after await this.loadContainers(): on to this.loadRules(), or
\* into the catch block.
initializeLoadsRules ==
    \E i \in Resumable :
        /\ inits[i].stage = "containers"
        /\ IF calls[inits[i].awaits].outcome = "fulfilled"
           THEN /\ load("rules", FALSE, loadingRulesPromise)
                /\ inits' = [inits EXCEPT ![i].stage = "rules",
                                          ![i].awaits = Len(calls) + 1]
           ELSE /\ inits' = [inits EXCEPT ![i].stage = "failed"]
                /\ UNCHANGED <<evalVars, repoVars, navVars, loadVars>>
        /\ UNCHANGED <<hostEvent, gets, readers>>

\* initialize after await this.loadRules(): the result, or the catch block.
initializeReturns ==
    \E i \in Resumable :
        /\ inits[i].stage = "rules"
        /\ inits' = [inits EXCEPT ![i].stage =
                        IF calls[inits[i].awaits].outcome = "fulfilled"
                        THEN "done" ELSE "failed"]
        /\ UNCHANGED <<evalVars, repoVars, navVars, loadVars, hostEvent, gets,
                       readers>>

DataInit ==
    /\ EvalIdle
    /\ NavIdle
    /\ LoadIdle
    /\ containerMap = EmptyMap
    /\ cookieStoreToNameMap = EmptyMap
    /\ rules = <<>>
    /\ hostIdentities \in HostInventories
    /\ storedRules \in StoredRuleSets

\* No task of the event loop starts while a continuation is due.
DataNext ==
    \/ getData
    \/ initializeLoadsRules
    \/ initializeReturns
    \/ (Resumable = {} /\ QueryReturns)
    \/ (Resumable = {} /\ QueryFails)
    \/ (Resumable = {} /\ StorageReturns)
    \/ (Resumable = {} /\ StorageFails)
    \/ (Resumable = {} /\ DecodeReturns)
    \/ (Resumable = {} /\ DecodeFails)
    \/ (Resumable = {} /\ HostChanges)
    \/ (Resumable = {} /\ StoreChanges)

SpecData == DataInit /\ [][DataNext]_vars

\* ------------------------------------------------ claims on the evaluator

EvalDone == evalResult # NotEvaluated

\* The 1-based positions of the rules whose pattern matches the url.
MatchingIdx ==
    {i \in 1..Len(evalRules) : matchesPattern(evalUrl, evalRules[i].urlPattern)}

HighIdx == {i \in MatchingIdx : evalRules[i].highPriority}

MinOf(S) == CHOOSE x \in S : \A y \in S : x <= y

\* Some matching rule names container c.
HasMatchingRule(c) == \E i \in MatchingIdx : evalRules[i].containerName = c

HasRule(c) == \E i \in 1..Len(evalRules) : evalRules[i].containerName = c

HasRestrictedRule(c) ==
    \E i \in 1..Len(evalRules) :
        evalRules[i].containerName = c /\ evalRules[i].action = "restricted"

OnlyRestrictedRules(c) ==
    /\ HasRule(c)
    /\ \A i \in 1..Len(evalRules) :
           evalRules[i].containerName = c => evalRules[i].action = "restricted"

\* The container the evaluator starts from: the current one, or
\* 'No Container' when none is given.
EffectiveCurrent == IF Falsy(evalCurrent) THEN NoContainer ELSE evalCurrent

\* C1 (stickiness): if some rule of the current container matches the url,
\* the evaluator returns the current container, whatever the priority or the
\* position of the other matching rules.
C1_Stickiness ==
    (EvalDone /\ HasMatchingRule(evalCurrent)) => evalResult = evalCurrent

\* C1 witness: the current container's matching rule comes after a matching
\* high-priority rule of another container, and the current container wins.
C1_Witness ==
    /\ EvalDone
    /\ \E i \in HighIdx, j \in MatchingIdx :
           /\ i < j
           /\ evalRules[i].containerName # evalCurrent
           /\ evalRules[j].containerName = evalCurrent
           /\ ~ evalRules[j].highPriority
    /\ evalResult = evalCurrent

\* C2 as claimed: when the current container has no matching rule, or is
\* absent, and some matching rule is high-priority, the result is the
\* container of a high-priority matching rule.
C2_PriorityAsClaimed ==
    (/\ EvalDone
     /\ (evalCurrent = Null \/ ~ HasMatchingRule(evalCurrent))
     /\ HighIdx # {})
    => \E i \in HighIdx : evalResult = evalRules[i].containerName

\* C2 amended (priority precedence): when the container the evaluator starts
\* from (the current one, 'No Container' when none is given) has no matching
\* rule and some matching rule is high-priority, the result is the container
\* of a high-priority matching rule, even if a matching rule that is not
\* high-priority comes earlier.
C2_PriorityPrecedence ==
    (EvalDone /\ ~ HasMatchingRule(EffectiveCurrent) /\ HighIdx # {})
    => \E i \in HighIdx : evalResult = evalRules[i].containerName

\* C2 witness: the current container has no matching rule, a matching rule
\* that is not high-priority precedes a high-priority one of another
\* container, and the high-priority one is returned.
C2_Witness ==
    /\ EvalDone
    /\ evalCurrent \notin {Null, NoContainer}
    /\ ~ HasMatchingRule(evalCurrent)
    /\ \E i \in HighIdx, j \in MatchingIdx \ HighIdx :
           /\ j < i
           /\ evalRules[j].containerName # evalRules[i].containerName
           /\ evalResult = evalRules[i].containerName

\* C3 (order tie-break): when the sticky case does not apply and some rule
\* matches, the result is the container of the matching high-priority rule
\* of smallest index, or, if no matching rule is high-priority, of the
\* matching rule of smallest index.
C3_OrderTieBreak ==
    (EvalDone /\ ~ HasMatchingRule(EffectiveCurrent) /\ MatchingIdx # {})
    => evalResult =
         evalRules[IF HighIdx # {} THEN MinOf(HighIdx)
                   ELSE MinOf(MatchingIdx)].containerName

\* C3 witness: two matching rules of the same tier name different
\* containers and the earlier one is returned.
C3_Witness ==
    /\ EvalDone
    /\ ~ HasMatchingRule(EffectiveCurrent)
    /\ \E i \in MatchingIdx, j \in MatchingIdx :
           /\ i < j
           /\ evalRules[i].highPriority = evalRules[j].highPriority
           /\ evalRules[i].containerName # evalRules[j].containerName
           /\ (HighIdx # {} => evalRules[i].highPriority)
           /\ evalResult = evalRules[i].containerName

C5_ExpulsionAsClaimed ==
    (/\ EvalDone
     /\ evalCurrent # Null
     /\ OnlyRestrictedRules(evalCurrent)
     /\ ~ HasMatchingRule(evalCurrent))
    => evalResult # evalCurrent

\* C5 amended (restriction expulsion): for every current container name
\* other than 'No Container', if all of its rules (at least one) are
\* restricted and none matches the url, the result is not the current
\* container.
C5_RestrictionExpulsion ==
    (/\ EvalDone
     /\ evalCurrent \notin {Null, NoContainer}
     /\ OnlyRestrictedRules(evalCurrent)
     /\ ~ HasMatchingRule(evalCurrent))
    => evalResult # evalCurrent

\* C5 witness: a restricted current container, nothing matches at all, and
\* the navigation is sent to 'No Container'.
C5_Witness ==
    /\ EvalDone
    /\ evalCurrent \notin {Null, NoContainer}
    /\ OnlyRestrictedRules(evalCurrent)
    /\ MatchingIdx = {}
    /\ evalResult = NoContainer

\* ---------------------------------------------- claims on the repository

\* The calls made while a browser call of their kind was pending.
Joined == {c \in DOMAIN calls : calls[c].inFlight # 0}

\* C7 (repository coalescing): at most one contextualIdentities.query and at
\* most one storage.sync.get is pending at any time; a call of loadContainers
\* or loadRules made while one is pending starts no run of its own, and its
\* promise settles when and as the pending run does, with the same value.
C7_RepositoryCoalescing ==
    /\ \A kind \in LoadKinds : Cardinality(Fetching(kind)) <= 1
    /\ \A c \in Joined :
           LET l == calls[c].inFlight
           IN  /\ \A m \in DOMAIN loads : loads[m].startedBy # c
               /\ loads[l].kind = calls[c].kind
               /\ IF loads[l].state \in {"fulfilled", "rejected"}
                  THEN /\ calls[c].outcome = loads[l].state
                       /\ calls[c].value = loads[l].value
                  ELSE calls[c].outcome = "pending"

\* C7 witness: two calls of loadContainers made while the first call's query
\* was pending have both settled with the inventory that query returned, and
\* that query is the only run there has been.
C7_Witness ==
    \E c \in Joined, d \in Joined :
        /\ c # d
        /\ calls[c].kind = "containers"
        /\ calls[c].inFlight = calls[d].inFlight
        /\ calls[c].outcome = "fulfilled"
        /\ calls[d].outcome = "fulfilled"
        /\ calls[c].value = <<containerMap>>
        /\ Len(loads) = 1

\* ---------------------------------------------- claims on the interceptor

\* The invocations that called browser.tabs.create.
Issued == {h \in HandlerIds : handlers[h].issuedAt # 0}

SameNavigation(a, b) ==
    /\ a # b
    /\ handlers[a].pc # "idle"
    /\ handlers[b].pc # "idle"
    /\ handlers[a].tabId = handlers[b].tabId
    /\ handlers[a].url = handlers[b].url

Apart(t1, t2, window) == t1 - t2 >= window \/ t2 - t1 >= window

\* C6 (dedup idempotence): of two handleRequest invocations for the same
\* (tabId, url) whose dedup checks run less than 1 s apart, at most one calls
\* browser.tabs.create; and when the second is dropped as a repeat and the
\* first finds that the rules require a switch, the first has called it:
\* exactly one tab-creation command.
C6_DedupIdempotence ==
    \A a \in HandlerIds, b \in HandlerIds :
        SameNavigation(a, b) =>
            /\ (a \in Issued /\ b \in Issued) =>
                   Apart(handlers[a].stampedAt, handlers[b].stampedAt,
                         EXPIRY_TAB_REQUEST_MS)
            /\ (/\ handlers[b].endedBy = "tabDedup"
                /\ handlers[a].pc \in {"awaitCreate", "done"}
                /\ handlers[a].current # Undefined
                /\ handlers[a].current # handlers[a].target)
               => (a \in Issued /\ b \notin Issued)

\* C6 witness: the first invocation relocated the navigation and the second,
\* for the same tab and url, was dropped by the tab-request dedup.
C6_Witness ==
    \E a \in HandlerIds, b \in HandlerIds :
        /\ SameNavigation(a, b)
        /\ handlers[a].endedBy = "relocated"
        /\ handlers[b].endedBy = "tabDedup"

\* C8 (no relocation loop): once a url has been relocated into container T,
\* no navigation to that url in a tab that lives in T is relocated again.
\* (The caches change only during the startup initialization, and no
\* relocation is decided before it has completed.)
C8_NoRelocationLoop ==
    \A a \in Issued, b \in Issued :
        handlers[a].url = handlers[b].url =>
            handlers[b].current # handlers[a].target

\* C8 witness: the first invocation relocated the url into a new tab, and
\* the new tab's own navigation to that url, handled after every dedup
\* window had passed, was evaluated and left where it is.
C8_Witness ==
    \E a \in HandlerIds, b \in HandlerIds :
        /\ handlers[a].endedBy = "relocated"
        /\ handlers[b].url = handlers[a].url
        /\ handlers[b].tabId = 3
        /\ handlers[b].current = handlers[a].target
        /\ handlers[b].endedBy = "noSwitch"

\* The rules of the container that a cookie store id names: it has a
\* restricted rule and none of its rules matches the url.
RestrictedAndUnmatched(cookieStoreId, url) ==
    LET name == MapGet(cookieStoreToNameMap, cookieStoreId)
    IN  /\ name \notin {Undefined, NoContainer}
        /\ \E i \in 1..Len(rules) :
               rules[i].containerName = name /\ rules[i].action = "restricted"
        /\ \A i \in 1..Len(rules) :
               rules[i].containerName = name =>
                   ~ matchesPattern(url, rules[i].urlPattern)

\* C9 as claimed (restricted-container isolation): with the repository
\* initialized, a navigation with a real tab and a non-privileged url, in a
\* tab whose container is restricted and whose rules do not match the url,
\* is relocated and cancelled.  (Stated for a tab that is still open, and
\* leaving aside a redelivery of the same (tabId, url) event and a failed
\* tab creation.)
C9_IsolationAsClaimed ==
    \A h \in HandlerIds :
        (/\ handlers[h].pc = "done"
         /\ handlers[h].tabId >= 0
         /\ ~ isPrivilegedURL(handlers[h].url)
         /\ handlers[h].ready
         /\ tabs[handlers[h].tabId] = handlers[h].tabStore
         /\ RestrictedAndUnmatched(handlers[h].tabStore, handlers[h].url)
         /\ handlers[h].endedBy \notin {"tabDedup", "createFailed"})
        => handlers[h].result = "cancel"

\* C10 as claimed (url dedup across tabs): of two navigations to the same
\* url from two different tabs, handled less than 2 s apart, at most one
\* calls browser.tabs.create.
C10_UrlDedupAsClaimed ==
    \A a \in Issued, b \in Issued :
        (/\ handlers[a].url = handlers[b].url
         /\ handlers[a].tabId # handlers[b].tabId)
        => Apart(handlers[a].issuedAt, handlers[b].issuedAt, EXPIRY_REDIRECT_MS)

\* The invocation h returns in this step.
Returns(h) == handlers[h].pc # "done" /\ handlers'[h].pc = "done"

\* The original tab of invocation h is removed in this step.
RemovesTab(h) ==
    /\ handlers[h].pc # "idle"
    /\ handlers[h].tabId >= 0
    /\ tabs[handlers[h].tabId] \in CookieStoreIds
    /\ tabs'[handlers[h].tabId] = Closed

\* A tab comes into being in this step.
CreatesTab == \E t \in TabIds : tabs[t] = Unborn /\ tabs'[t] \in CookieStoreIds

\* What C11 says of the returns of handleRequest, in one step of invocation h:
\* { cancel: true } is returned only by the continuation of a tabs.create
\* that resolved, the original tab is removed only in that step, by that
\* invocation, and a tabs.create that rejected ends in {} with every tab left
\* as it is.
FailOpenStep(h) ==
    /\ (Returns(h) /\ handlers'[h].result = "cancel") =>
           /\ handlers[h].pc = "awaitCreate"
           /\ handlers'[h].endedBy = "relocated"
           /\ (\E t \in TabIds : tabs[t] = Unborn) => CreatesTab
    /\ RemovesTab(h) =>
           \/ (Returns(h) /\ handlers'[h].result = "cancel")
           \/ \E g \in HandlerIds \ {h} :
                  /\ handlers[g].tabId = handlers[h].tabId
                  /\ Returns(g)
                  /\ handlers'[g].result = "cancel"
    /\ (Returns(h) /\ handlers'[h].endedBy = "createFailed") =>
           (handlers'[h].result = "pass" /\ tabs' = tabs)

PrivilegedSamples ==
    {UrlAbout,
     <<"m", "o", "z", "-", "e", "x", "t", "e", "n", "s", "i", "o", "n", ":", "x">>,
     <<"c", "h", "r", "o", "m", "e", ":", "x">>,
     <<"r", "e", "s", "o", "u", "r", "c", "e", ":", "x">>}

\* The navigation of invocation h has a privileged url or no tab.
Exempt(h) == handlers[h].url \in PrivilegedSamples \/ handlers[h].tabId = NoTab

\* C12 (privileged urls and tab -1): urls of the four privileged schemes are
\* recognised, and a navigation with a privileged url or with tabId -1
\* returns {} without calling tabs.create or tabs.remove, and
\* the step in which it returns leaves the three dedup tables as they are.
C12_ExemptNavigations ==
    /\ [](\A url \in PrivilegedSamples : isPrivilegedURL(url))
    /\ [](\A h \in HandlerIds :
             (handlers[h].pc # "idle" /\ Exempt(h)) =>
                 /\ handlers[h].pc \in {"awaitInit", "done"}
                 /\ handlers[h].issuedAt = 0
                 /\ handlers[h].stampedAt = 0
                 /\ handlers[h].pc = "done" => handlers[h].result = "pass")
    /\ [][\A h \in HandlerIds :
             (Exempt(h) /\ handlers[h].pc # handlers'[h].pc) =>
                 UNCHANGED <<dedupVars, tabs>>]_vars

\* C12 witness: a navigation to about:c and a navigation with tabId -1 have
\* both been passed through.
C12_Witness ==
    \E a \in HandlerIds, b \in HandlerIds :
        /\ handlers[a].endedBy = "privileged"
        /\ handlers[a].tabId # NoTab
        /\ handlers[b].endedBy = "noTab"
        /\ handlers[a].result = "pass"
        /\ handlers[b].result = "pass"

LiveRules ==
    LET Live(rule) == rule.containerName \in DOMAIN containerMap
    IN  SelectSeq(rules, Live)

\* The cookie store id that evaluateContainer would return from a rule list.
TargetUnder(ruleList, url, currentCookieStoreId) ==
    LET got == MapGet(cookieStoreToNameMap, currentCookieStoreId)
        currentContainerName == IF got = Undefined THEN NoContainer ELSE got
        name == evaluateContainerForUrl(url, currentContainerName, ruleList, containerMap)
    IN  IF name \in DOMAIN containerMap THEN containerMap[name] ELSE FirefoxDefault

\* C15 as claimed (rule for a missing container): a rule whose containerName
\* is not in the inventory never produces a candidate, so a navigation is
\* sent where it would be sent if those rules were not there.
C15_MissingContainerAsClaimed ==
    \A h \in HandlerIds :
        (/\ handlers[h].ready
         /\ handlers[h].current # Undefined
         /\ ~ handlers[h].lookupFailed)
        => handlers[h].target =
               TargetUnder(LiveRules, handlers[h].url, handlers[h].current)

\* C20 (cold start is fail-open): an invocation that waits for the first
\* initialization always gets past the wait, whether the initialization
\* completes, fails or stays pending for ever.
C20_ColdStart ==
    \A h \in HandlerIds :
        (handlers[h].pc = "awaitInit") ~> (handlers[h].pc \notin {"idle", "awaitInit"})

\* C20 witness: the initialization is still pending, and an invocation that
\* was dispatched meanwhile has gone on without it, with nothing cached.
C20_Witness ==
    \E h \in HandlerIds :
        /\ handlers[h].pc \notin {"idle", "awaitInit"}
        /\ ~ handlers[h].ready
        /\ initializationPromise = "pending"
        /\ initStage = "containers"
        /\ containerMap = EmptyMap

\* Run l fails in this step.
Rejects(l) == loads[l].state # "rejected" /\ loads'[l].state = "rejected"

\* C13 (a failed refresh leaves the cache alone): the step in which a run of
\* #doLoadContainers or #doLoadRules fails changes neither the inventory nor
\* the rule set, and leaves the cache of its kind as it was when the run
\* started.
C13_FailedRefresh ==
    [][\A l \in DOMAIN loads :
          Rejects(l) =>
              /\ UNCHANGED <<containerMap, cookieStoreToNameMap, rules>>
              /\ IF loads[l].kind = "containers"
                 THEN <<containerMap', cookieStoreToNameMap'>> = loads[l].before
                 ELSE <<rules'>> = loads[l].before]_vars

\* C13 witness: a container refresh failed after the host's inventory had
\* changed, and the cache still holds the inventory of the earlier load.
C13_Witness ==
    \E l \in DOMAIN loads :
        /\ loads[l].kind = "containers"
        /\ loads[l].state = "rejected"
        /\ loads[l].before[1] # EmptyMap
        /\ containerMap = loads[l].before[1]
        /\ containerMap # LoadedContainerMap(hostIdentities, Len(hostIdentities))

Marker(kind) ==
    IF kind = "containers" THEN loadingContainersPromise ELSE loadingRulesPromise

Unsettled(kind) ==
    {l \in DOMAIN loads :
        loads[l].kind = kind /\ loads[l].state \in {"fetching", "decoding"}}

\* C14 (the marker is cleared on completion): a marker only ever names a run
\* that has not settled, no call has seen its run settle while the marker
\* still named it, and a call made when no run of its kind is unsettled
\* starts a new run with a new browser call, also after a failure.
C14_MarkerCleared ==
    /\ [](\A kind \in LoadKinds :
             Marker(kind) # 0 => Marker(kind) \in Unsettled(kind))
    /\ [](\A c \in DOMAIN calls :
             calls[c].outcome # "pending" => Marker(calls[c].kind) # calls[c].awaits)
    /\ [][Len(calls') = Len(calls) + 1 =>
             LET c == Len(calls')
             IN  Unsettled(calls'[c].kind) = {} =>
                     /\ Len(loads') = Len(loads) + 1
                     /\ loads'[Len(loads')].startedBy = c
                     /\ loads'[Len(loads')].state = "fetching"
                     /\ calls'[c].awaits = Len(loads')]_vars

\* C14 witness: a refresh failed, its caller saw the failure, and a later
\* call of the same kind started a run of its own that succeeded.
C14_Witness ==
    \E l \in DOMAIN loads, m \in DOMAIN loads :
        /\ l < m
        /\ loads[l].kind = loads[m].kind
        /\ loads[l].state = "rejected"
        /\ calls[loads[l].startedBy].outcome = "rejected"
        /\ loads[m].state = "fulfilled"
        /\ Marker(loads[l].kind) = 0

\* -------------------------------------------- claims on the notifications

\* C17: every container creation, removal or rename notification the host
\* dispatches issues or joins a container refresh, that is, its dispatch is a
\* call of loadContainers.
C17_NotificationsAsClaimed ==
    [][(/\ hostEvent \in {"onCreated", "onRemoved", "onUpdated"}
        /\ hostEvent' = "none")
       => (/\ Len(calls') = Len(calls) + 1
           /\ calls'[Len(calls')].kind = "containers")]_vars

\* The held values of one kind.
Holders(kind) == {r \in DOMAIN readers : readers[r].kind = kind}

\* C19 as stated: whatever a reader obtained before a refresh, inventory or
\* rule set, it still observes through that value afterwards.
C19_WholeValueSwapAsClaimed ==
    \A r \in DOMAIN readers : readers[r].contents = readers[r].obtained

\* C19: a refresh of the rules swaps the array, so a held rule set keeps the
\* contents it was obtained with; a refresh of the inventory rebuilds the two
\* Maps in place in one step, so a held inventory shows the cache's current
\* complete contents, the two Maps always agreeing with each other.
C19_RefreshAndReaders ==
    /\ \A r \in Holders("rules") : readers[r].contents = readers[r].obtained
    /\ \A r \in Holders("containers") : readers[r].contents = containerMap
    /\ \A name \in DOMAIN containerMap :
           MapGet(cookieStoreToNameMap, containerMap[name]) = name
    /\ \A id \in DOMAIN cookieStoreToNameMap :
           MapGet(containerMap, cookieStoreToNameMap[id]) = id

\* A rule set and an inventory, both obtained before a refresh that changed
\* the cache, are held after it.
C19_Witness ==
    /\ \E r \in Holders("rules") : readers[r].obtained # <<rules>>
    /\ \E r \in Holders("containers") : readers[r].obtained # containerMap

\* C18: getData returns the cached data without loading exactly when both the
\* container cache and the rule cache have been populated by a successful
\* load; in every other state it goes through initialize().
C18_GetDataAsClaimed ==
    \A g \in DOMAIN gets :
        gets[g].decision = "cached"
            <=> (gets[g].containersLoaded /\ gets[g].rulesLoaded)

\* ------------------------------------------ claims on the pattern matcher

Matched == matchResult # <<>>

\* The pattern starts with '/', ends with '/' and is longer than 2 characters.
Delimited == /\ Len(matchPattern) > 2
             /\ matchPattern[1] = "/"
             /\ matchPattern[Len(matchPattern)] = "/"

InnerText == SubSeq(matchPattern, 2, Len(matchPattern) - 1)

\* An empty pattern, or a delimited one whose inner text does not compile.
BadPattern == Len(matchPattern) = 0 \/ (Delimited /\ RegexSyntaxError(InnerText))

\* C23 (pattern totality): matchesPattern returns a boolean for every url and
\* pattern; an empty pattern and a delimited pattern whose inner expression
\* does not compile yield false, and evaluateContainerForUrl on a rule with
\* such a pattern runs to its end with the rule not applying.
C23_PatternTotality ==
    /\ Matched => /\ matchResult[1] \in BOOLEAN
                  /\ BadPattern => matchResult[1] = FALSE
    /\ (evalResult # NotEvaluated /\ Len(evalRules) = 1 /\ BadPattern)
           => evalResult = NoContainer

\* C23 witness: a delimited pattern that does not compile has been matched
\* and evaluated.
C23_Witness ==
    /\ Matched
    /\ Delimited
    /\ RegexSyntaxError(InnerText)
    /\ matchResult = <<FALSE>>
    /\ Len(evalRules) = 1
    /\ evalResult = NoContainer

\* C24 (mode selection): a pattern is a regular expression over its inner
\* text exactly when it starts with '/', ends with '/' and is longer than 2
\* characters; every other non-empty pattern, '/' and '//' included, matches
\* exactly when the url contains it.
C24_ModeSelection ==
    (Matched /\ Len(matchPattern) > 0)
    => matchResult[1] =
         IF Delimited
         THEN ~ RegexSyntaxError(InnerText) /\ RegexTest(InnerText, evalUrl)
         ELSE Includes(evalUrl, matchPattern)

\* C24 witness: a delimited pattern matches a url that does not contain it.
C24_Witness ==
    /\ Matched
    /\ Delimited
    /\ matchResult = <<TRUE>>
    /\ ~ Includes(evalUrl, matchPattern)

\* ------------------------------------- further claims on the evaluator

OnlyOpenRules(c) ==
    /\ HasRule(c)
    /\ \A i \in 1..Len(evalRules) :
           evalRules[i].containerName = c => evalRules[i].action = "open"

\* C21 as stated: when the current container is a user container that has
\* rules, all of them open, the navigation stays in the current container
\* for every url, also for a url that matches a rule of another container.
C21_OpenContainerAsClaimed ==
    (EvalDone /\ evalCurrent \notin {Null, NoContainer} /\ OnlyOpenRules(evalCurrent))
    => evalResult = evalCurrent

C28_Idempotence ==
    EvalDone
    => evaluateContainerForUrl(evalUrl, evalResult, evalRules, <<>>) = evalResult

\* C28 witness: the evaluator sent the navigation to a container other than
\* the one it started from, two containers have a matching rule, and the
\* second evaluation stays.
C28_Witness ==
    /\ EvalDone
    /\ evalResult # EffectiveCurrent
    /\ evalResult # NoContainer
    /\ \E i \in MatchingIdx, j \in MatchingIdx :
           evalRules[i].containerName # evalRules[j].containerName
    /\ evaluateContainerForUrl(evalUrl, evalResult, evalRules, <<>>) = evalResult

\* Some restricted rule of container c matches the url.
HasMatchingRestrictedRule(c) ==
    \E i \in MatchingIdx :
        evalRules[i].containerName = c /\ evalRules[i].action = "restricted"

Quiescent(kind) ==
    /\ hostEvent = "none"
    /\ \A l \in DOMAIN loads : loads[l].state = "fulfilled"
    /\ \E c \in DOMAIN calls : calls[c].kind = kind

\* C26 as stated: once every notification has been dispatched and all
\* refreshes have completed successfully, the rule cache equals the store's
\* content and the container cache the host's inventory (no container having
\* been renamed), also when a notification met a refresh in flight.
C26_FreshnessAsClaimed ==
    /\ Quiescent("rules") => rules = storedRules
    /\ (Quiescent("containers") /\ hostIdentities[1] = WorkIdentity)
           => containerMap = LoadedContainerMap(hostIdentities, Len(hostIdentities))

\* ------------------------------------ further claims on the interceptor

\* Invocation h receives the answer of getTabInfo in this step.
LooksUp(h) ==
    handlers[h].pc = "awaitTabInfo" /\ handlers'[h].pc # "awaitTabInfo"

\* The tab that browser.tabs.create of invocation h brings into being in
\* this step, if it is a tracked one.
Relocates(h, t) ==
    /\ handlers[h].pc = "awaitCreate"
    /\ handlers'[h].endedBy = "relocated"
    /\ tabs[t] = Unborn
    /\ tabs'[t] \in CookieStoreIds

\* C25 (foreground/background intent): the lookup records the active state
\* the original tab has at that moment, and the destination tab is created
\* with that state, whatever tab the user has selected since.
C25_ActivePreserved ==
    [][\A h \in HandlerIds :
          /\ (LooksUp(h) /\ tabs[handlers[h].tabId] \in CookieStoreIds)
                 => handlers'[h].active = tabActive[handlers[h].tabId]
          /\ \A t \in TabIds :
                 Relocates(h, t) => tabActive'[t] = handlers[h].active]_vars

\* C25 witness: a relocation out of a background tab has produced a
\* background tab.
C25_Witness ==
    \E h \in HandlerIds :
        /\ handlers[h].endedBy = "relocated"
        /\ ~ handlers[h].active
        /\ tabs[3] \in CookieStoreIds
        /\ ~ tabActive[3]

\* No rule of the cached rule set matches the url.
NothingMatches(url) ==
    \A i \in 1..Len(rules) : ~ matchesPattern(url, rules[i].urlPattern)

\* C27 as stated: with more than one entry in the cached inventory, a
\* navigation whose url matches no rule, in a tab that is not in a restricted
\* container, is not relocated, whatever the tab's container id is, one
\* absent from the cached inventory included.
C27_NoMatchNoRelocationAsClaimed ==
    \A h \in HandlerIds :
        (/\ handlers[h].current # Undefined
         /\ Cardinality(DOMAIN containerMap) > 1
         /\ NothingMatches(handlers[h].url)
         /\ ~ RestrictedAndUnmatched(handlers[h].current, handlers[h].url))
        => handlers[h].issuedAt = 0

\* C30 as stated: after the startup initialization has failed, navigation
\* attempts make the interceptor call CtcRepo.initialize() again: by the time
\* two later navigations have been handled, the initialization is no longer
\* in its failed state.
C30_RetryAsClaimed ==
    ~ (/\ initStage = "failed"
       /\ initializationPromise = Null
       /\ \A h \in HandlerIds : handlers[h].pc = "done")

\* The name the interceptor resolves a partition id to.
NameOf(cookieStoreId) ==
    IF cookieStoreId \in DOMAIN cookieStoreToNameMap
    THEN cookieStoreToNameMap[cookieStoreId]
    ELSE NoContainer

\* Invocation g issued a relocation for the same pair of container names
\* as the pair that invocation h has just evaluated, less than 1.5 s ago.
RelocatedSamePair(g, h) ==
    /\ handlers[g].issuedAt # 0
    /\ now - handlers[g].issuedAt < EXPIRY_CONTAINER_SWITCH_MS
    /\ NameOf(handlers[g].current) = NameOf(handlers'[h].current)
    /\ NameOf(handlers[g].target) = NameOf(handlers'[h].target)

\* C31 as stated: a navigation whose evaluation yields a switch from A to B
\* is passed through without relocation when a relocation from A to B was
\* issued less than 1.5 s before, whatever its url and tab; when no such
\* relocation was issued (the last one is 1.5 s old, or was for a different
\* pair of names) the relocation is issued.
C31_PairSuppressionAsClaimed ==
    [][\A h \in HandlerIds :
          (LooksUp(h) /\ handlers'[h].current # handlers'[h].target)
          => IF \E g \in HandlerIds \ {h} : RelocatedSamePair(g, h)
             THEN /\ handlers'[h].endedBy = "switchDedup"
                  /\ handlers'[h].result = "pass"
                  /\ handlers'[h].issuedAt = 0
             ELSE /\ handlers'[h].pc = "awaitCreate"
                  /\ handlers'[h].issuedAt = now]_vars

\* ------------------------------------- claims on the interceptor's view

\* The name that an inventory gives to a partition id.
VersionName(inventory, cookieStoreId) ==
    IF \E i \in DOMAIN inventory : inventory[i].cookieStoreId = cookieStoreId
    THEN LET i == CHOOSE i \in DOMAIN inventory :
                      inventory[i].cookieStoreId = cookieStoreId
         IN  inventory[i].name
    ELSE NoContainer

\* The partition id that an inventory gives to a container name.
VersionId(inventory, name) ==
    IF \E i \in DOMAIN inventory : inventory[i].name = name
    THEN LET i == CHOOSE i \in DOMAIN inventory : inventory[i].name = name
         IN  inventory[i].cookieStoreId
    ELSE FirefoxDefault

\* Where a navigation is sent when every read is made of one inventory and
\* one rule list.
VersionTarget(inventory, ruleList, url, currentCookieStoreId) ==
    VersionId(inventory,
              evaluateContainerForUrl(url, VersionName(inventory, currentCookieStoreId),
                                      ruleList,
                                      LoadedContainerMap(inventory, Len(inventory))))

\* C32 (no torn view mid-decision): when an invocation of handleRequest
\* decides, there are one inventory of the host and one saved rule list such
\* that the cache holds exactly that inventory, whole, and that rule list,
\* the target is the one evaluated from them, the container-pair stamp of an
\* issued relocation is named from them, and no refresh changes the cache in
\* the step of the decision.
C32_NoTornView ==
    [][\A h \in HandlerIds :
          LooksUp(h) =>
             \E inventory \in HostInventories, ruleList \in StoredRuleSets :
                 LET current == handlers'[h].current
                     target == handlers'[h].target
                     pair == containerSwitchKey(VersionName(inventory, current),
                                                VersionName(inventory, target))
                 IN  /\ containerMap = LoadedContainerMap(inventory, Len(inventory))
                     /\ cookieStoreToNameMap =
                            LoadedCookieStoreToNameMap(inventory, Len(inventory))
                     /\ rules = ruleList
                     /\ target = VersionTarget(inventory, ruleList,
                                               handlers[h].url, current)
                     /\ handlers'[h].pc = "awaitCreate"
                            => /\ pair \in DOMAIN recentContainerSwitches'
                               /\ recentContainerSwitches'[pair] = now
                     /\ UNCHANGED <<containerMap, cookieStoreToNameMap, rules>>]_vars

\* C32 witness: two navigations of tabs in the Personal container were
\* decided, one before and one after the refresh that followed the removal
\* of that container, each from its own version of the inventory.
C32_Witness ==
    /\ \A h \in HandlerIds : handlers[h].current = "personal-id"
                             /\ handlers[h].issuedAt # 0
    /\ containerSwitchKey("Personal", "Work") \in DOMAIN recentContainerSwitches
    /\ containerSwitchKey(NoContainer, "Work") \in DOMAIN recentContainerSwitches

\* ------------------------------------- claims on the tracking Maps

\* Invocation h is dispatched in this step and runs up to its first await
\* or return.
Dispatched(h) == handlers[h].pc = "idle" /\ handlers'[h].pc # "idle"

\* Invocation h passes the tab+url check in this step and records its stamp.
Accepted(h) == Dispatched(h) /\ handlers'[h].stampedAt = now

\* The entries of a tracking Map that are older than its window.
OlderThan(map, window) == {k \in DOMAIN map : now - map[k] > window}

\* after is what is left of map once its entries older than window are gone.
Swept(map, after, window) ==
    /\ DOMAIN after = DOMAIN map \ OlderThan(map, window)
    /\ \A k \in DOMAIN after : after[k] = map[k]

\* An invocation before h accepted the same tab and url less than 1 s ago.
TabRequestWithin(h) ==
    \E g \in HandlerIds \ {h} :
        /\ handlers[g].stampedAt # 0
        /\ handlers[g].tabId = handlers'[h].tabId
        /\ handlers[g].url = handlers'[h].url
        /\ now - handlers[g].stampedAt < EXPIRY_TAB_REQUEST_MS

\* An invocation before h issued a relocation of the same url less than 2 s ago.
RedirectWithin(h) ==
    \E g \in HandlerIds \ {h} :
        /\ handlers[g].issuedAt # 0
        /\ handlers[g].url = handlers'[h].url
        /\ now - handlers[g].issuedAt < EXPIRY_REDIRECT_MS

TabRequestKeyOf(h) == <<handlers[h].tabId, handlers[h].url>>

PairKeyOf(h) ==
    containerSwitchKey(NameOf(handlers[h].current), NameOf(handlers[h].target))

\* The Map holds a stamp for key that is not older than since.
StampedSince(map, key, since) == key \in DOMAIN map /\ map[key] >= since

\* C33 as stated: once an invocation has issued the tab-creation command,
\* the tab+url stamp, the url stamp and the container-pair stamp of its
\* navigation are in the tracking Maps, for every event handled afterwards.
C33_StampsAsClaimed ==
    \A h \in HandlerIds :
        handlers[h].issuedAt # 0
        => /\ TabRequestKeyOf(h) \in DOMAIN recentTabRequests
           /\ handlers[h].url \in DOMAIN recentRedirections
           /\ PairKeyOf(h) \in DOMAIN recentContainerSwitches

\* C33 (stamps precede the command): an invocation that has issued the
\* tab-creation command recorded its tab+url stamp when it accepted the
\* event, not after the issue, and from the issue on (before the command
\* completes and after) the Maps hold each of the three stamps for as long
\* as it is within its window: the url stamp for 2 s and the pair stamp for
\* 1.5 s from the issue, the tab+url stamp for 1 s from the acceptance.
C33_StampsPrecede ==
    \A h \in HandlerIds :
        handlers[h].issuedAt # 0
        => /\ handlers[h].stampedAt # 0
           /\ handlers[h].stampedAt <= handlers[h].issuedAt
           /\ now - handlers[h].stampedAt <= EXPIRY_TAB_REQUEST_MS
                  => StampedSince(recentTabRequests, TabRequestKeyOf(h),
                                  handlers[h].stampedAt)
           /\ now - handlers[h].issuedAt <= EXPIRY_REDIRECT_MS
                  => StampedSince(recentRedirections, handlers[h].url,
                                  handlers[h].issuedAt)
           /\ now - handlers[h].issuedAt <= EXPIRY_CONTAINER_SWITCH_MS
                  => StampedSince(recentContainerSwitches, PairKeyOf(h),
                                  handlers[h].issuedAt)

\* C33 witness: while the tab-creation command of one invocation is still
\* pending, a later event for the same url in another tab has been dropped
\* by the url check.
C33_Witness ==
    \E h \in HandlerIds, g \in HandlerIds :
        /\ handlers[h].pc = "awaitCreate"
        /\ handlers[g].endedBy = "urlDedup"
        /\ handlers[g].url = handlers[h].url
        /\ handlers[g].tabId # handlers[h].tabId
        /\ handlers[g].stampedAt > handlers[h].issuedAt

\* ------------------------------------- claims on the initialization

\* Run i of initialize leaves its await of loadContainers() in this step.
LeavesContainers(i) ==
    /\ i \in DOMAIN inits
    /\ inits[i].stage = "containers"
    /\ inits'[i].stage # "containers"

\* The container refresh that run i of initialize awaited has completed
\* successfully.
ContainersRefreshed(i) ==
    LET call == calls[inits[i].awaits]
    IN  /\ call.kind = "containers"
        /\ call.outcome = "fulfilled"
        /\ loads[call.awaits].kind = "containers"
        /\ loads[call.awaits].state = "fulfilled"

\* A call of loadRules is made in this step.
CallsLoadRules ==
    /\ Len(calls') = Len(calls) + 1
    /\ calls'[Len(calls')].kind = "rules"

\* C35 (containers first, rules second): a run of initialize starts with
\* the container refresh and makes no rule call then; when it leaves the
\* await of the container refresh it calls loadRules if that refresh has
\* completed successfully, and otherwise it makes no call, starts no fetch
\* and ends as failed, for good; no rule call is made at any other moment.
C35_ContainersFirst ==
    [][/\ \A i \in DOMAIN inits' \ DOMAIN inits :
              /\ inits'[i].stage = "containers"
              /\ calls'[inits'[i].awaits].kind = "containers"
              /\ ~ CallsLoadRules
       /\ \A i \in DOMAIN inits :
              /\ LeavesContainers(i) =>
                     IF ContainersRefreshed(i)
                     THEN /\ inits'[i].stage = "rules"
                          /\ CallsLoadRules
                          /\ inits'[i].awaits = Len(calls')
                     ELSE /\ inits'[i].stage = "failed"
                          /\ UNCHANGED <<calls, loads>>
              /\ inits[i].stage = "failed" => inits'[i].stage = "failed"
       /\ CallsLoadRules =>
              \E i \in DOMAIN inits : LeavesContainers(i) /\ ContainersRefreshed(i)
       /\ (\E l \in DOMAIN loads' \ DOMAIN loads : loads'[l].kind = "rules")
              => CallsLoadRules]_vars

\* C35 witness: a first initialize failed on its container refresh and no
\* rule fetch was made for it; a second one refreshed the containers, then
\* fetched the rules, and succeeded.
C35_Witness ==
    /\ Len(inits) = 2
    /\ inits[1].stage = "failed"
    /\ inits[2].stage = "done"
    /\ Cardinality({l \in DOMAIN loads : loads[l].kind = "rules"}) = 1

\* ------------------------------------- claims on the inventory

\* C36 as stated: once a container refresh has completed successfully, the
\* inventory maps 'No Container' to 'firefox-default' and 'firefox-default'
\* to 'No Container', whatever list of containers the host returned, one
\* with a container named 'No Container' included.
C36_DefaultEntryAsClaimed ==
    Loaded("containers")
    => /\ MapGet(containerMap, NoContainer) = FirefoxDefault
       /\ MapGet(cookieStoreToNameMap, FirefoxDefault) = NoContainer

\* ------------------------------------- claims on redelivered events

\* C37 (a suppressed repeat does not extend the window): an event dropped
\* by the tab+url check leaves the three Maps as they are; a timestamp of
\* the tab+url Map changes only to the time of an event that passes the
\* check; and an event is dropped exactly when the stored timestamp of its
\* tab and url is less than 1 s old, so that a redelivery 1 s or more after
\* the last processed event passes the check and is stamped, whatever
\* repeats were dropped in between.
C37_NoExtension ==
    [][/\ \A h \in HandlerIds :
              /\ (Dispatched(h) /\ handlers'[h].endedBy = "tabDedup")
                     => UNCHANGED dedupVars
              /\ (Dispatched(h) /\ handlers'[h].endedBy \notin {"privileged", "noTab"})
                     => LET key == <<handlers'[h].tabId, handlers'[h].url>>
                            last == TimeGet(recentTabRequests, key)
                        IN  IF last # 0 /\ now - last < 1000
                            THEN handlers'[h].endedBy = "tabDedup"
                            ELSE /\ handlers'[h].stampedAt = now
                                 /\ key \in DOMAIN recentTabRequests'
                                 /\ recentTabRequests'[key] = now
       /\ \A key \in DOMAIN recentTabRequests' :
              \/ /\ key \in DOMAIN recentTabRequests
                 /\ recentTabRequests'[key] = recentTabRequests[key]
              \/ \E h \in HandlerIds :
                     /\ Accepted(h)
                     /\ key = <<handlers'[h].tabId, handlers'[h].url>>
                     /\ recentTabRequests'[key] = now]_vars

\* C37 witness: after the event of tab 1 processed earlier, a repeat was
\* dropped by the tab+url check and left the timestamp alone, and the next
\* redelivery, 1 s or more after the processed event, has been processed.
C37_Witness ==
    /\ handlers["h1"].endedBy = "tabDedup"
    /\ handlers["h1"].tabId = 1
    /\ handlers["h2"].tabId = 1
    /\ handlers["h2"].url = handlers["h1"].url
    /\ handlers["h2"].stampedAt = 1500
    /\ recentTabRequests[<<1, UrlWork>>] = 1500

====
